---------------------------- MODULE Spec2Model ----------------------------
(***************************************************************************)
(* Model of the ide-rust language-server lifecycle manager                 *)
(* (rust-lang/atom-ide-rust): the per-project session (lib/rls-project.js, *)
(* lib/rust-project.js), the orchestrator (lib/index.js) and the remote    *)
(* version oracle (lib/dist-fetch.js).                                     *)
(*                                                                         *)
(* The program is single-threaded and event-driven: every action below is  *)
(* one synchronous turn (an event callback, or the code between two        *)
(* awaits).  The module holds several specifications, one per component;   *)
(* each leaves the variables of the other components at their initial      *)
(* values.                                                                 *)
(***************************************************************************)
EXTENDS Integers, Sequences, FiniteSets, TLC

VARIABLES
    \* ---- per-project configuration push (RlsProject.sendRlsTomlConfig)
    rlsToml,            \* the rls.toml file at the project root
    rlsDefaultConfig,   \* atom.config "ide-rust.rlsDefaultConfig"
    lastSentConfig,     \* RlsProject._lastSentConfig
    reads,              \* fs.readFile calls in flight, in the order issued
    lastPush,           \* the last didChangeConfiguration the connection got
    lastCallback,       \* what the last readFile callback did
    \* ---- busy indicators of one session (RlsProject constructor handlers)
    busySignalService,  \* whether getBusySignalService() returns a service
    messages,           \* every BusyMessage reportBusy has returned
    progress,           \* RlsProject._progress: token -> message (0: none)
    rustDocBusyMessage, \* RlsProject._rustDocBusyMessage (0: null)
    exited,             \* the server process has emitted 'exit'
    legacyHist,         \* the legacy build events delivered so far
    legacyDropped,      \* a beginBuild found no busy service
    lastKind,           \* per token, the kind of its latest $/progress event
    progressDropped,    \* a $/progress event found no busy service
    \* ---- component check and installer (checkRls, installRlsComponents)
    rlsToolchain,       \* atom.config "ide-rust.rlsToolchain"
    checkingRls,        \* the module's _checkingRls (0: null, else a check)
    checks,             \* every component check started, in order
    calls,              \* every call of checkRls, in order
    settled,            \* the number of checks that have settled
    \* ---- orchestrator (RustLanguageClient)
    ignoredProjectPaths, \* atom.config "ide-rust.ignoredProjectPaths"
    rlsCommandOverride, \* whether "ide-rust.rlsCommandOverride" is set
    roots,              \* the project paths the editor has open
    flags,              \* _periodicUpdateChecking, _conflictingPackageChecking,
                        \* _warnedAboutRlsCommandOverride
    starting,           \* per project path, where its startServerProcess is
    servers,            \* the server processes spawned and not yet exited
    projects,           \* RustLanguageClient.projects, as (path, project) pairs
    lastStep,           \* what the last turn did, if it was a call of
                        \* startServerProcess
    trail,              \* per project path, the checks its startServerProcess
                        \* has passed so far
    lastResult,         \* how the call of startServerProcess that ended in
                        \* the last turn, if one did, has ended
    notices,            \* the 'Using rls command' notices added
    activePackages,     \* the conflicting packages that are active
    notifications,      \* atom.notifications.getNotifications(): the
                        \* conflict warnings added, dismissed ones included
    activationListeners, \* the onDidActivatePackage listeners registered
    chains,             \* every periodicUpdate closure startServerProcess
                        \* has made, with its periodicUpdateTimeoutId
    timers,             \* the ids of the timers set and neither fired nor
                        \* cleared
    lastTimer,          \* the id the last setTimeout returned
    timerFires,         \* the number of timers that have fired
    deactivated,        \* deactivate() has run
    checkedAfterDeactivate, \* an update check began after deactivate()
    \* ---- update checks and remedies (RustLanguageClient)
    checkForToolchainUpdates, \* atom.config "ide-rust.checkForToolchainUpdates"
    activeOverrides,    \* RustLanguageClient.activeOverrides
    flows,              \* the calls of _promptToUpdateToolchain, the checks
                        \* they start per toolchain, and the calls of
                        \* _handleMissingToolchain and _handleMissingRustup
    \* ---- the watcher of rls.toml (activate, onDidChangeFiles)
    projectKeys,        \* Object.keys(this.projects), in their order
    resent,             \* per event of the last batch of file changes, the
                        \* sessions whose sendRlsTomlConfig was called
    \* ---- the server's standard output (logSuspiciousStdout)
    stdout,             \* what the server has written and the stream has
                        \* not yet delivered
    delivered,          \* what the 'data' events have delivered so far
    logged,             \* the lines logged as suspicious, in order
    \* ---- remote version oracle (lib/dist-fetch.js)
    fetches,            \* every call of fetchLatestDist, in order
    suggested,          \* the promise of the call of suggestChannelOrDated
    now,                \* the clock, Date.now()
    datedNightlyHasRlsCache, \* cache key (date string) -> promise
    walks,              \* the calls of fetchLatestDatedDistWithRls
    errors,             \* the connection errors other than ENOTFOUND so far
    requests,           \* cache key -> how each https.get for it has ended
    datedCalls          \* the calls of checkDatedDistHasRls, in order

cfgVars == <<rlsToml, rlsDefaultConfig, lastSentConfig, reads, lastPush,
             lastCallback>>

busyVars == <<busySignalService, messages, progress, rustDocBusyMessage,
              exited, legacyHist, legacyDropped>>

progVars == <<lastKind, progressDropped>>

checkVars == <<rlsToolchain, checkingRls, checks, calls, settled>>

orchVars == <<ignoredProjectPaths, rlsCommandOverride, roots, flags, starting,
              servers, projects, lastStep, trail, lastResult, notices>>

conflictVars == <<activePackages, notifications, activationListeners>>

periodicVars == <<chains, timers, lastTimer, timerFires, deactivated,
                  checkedAfterDeactivate>>

stdoutVars == <<stdout, delivered, logged>>

watchVars == <<projectKeys, resent>>

promptVars == <<checkForToolchainUpdates, activeOverrides, flows>>

latestVars == <<fetches, suggested>>

walkVars == <<now, datedNightlyHasRlsCache, walks, errors>>

datedVars == <<requests, datedCalls>>

vars == <<cfgVars, busyVars, progVars, checkVars, orchVars, conflictVars,
          periodicVars, stdoutVars, latestVars, walkVars, datedVars,
          watchVars, promptVars>>

\* the variables of the other components
exceptConfig == <<busyVars, progVars, checkVars, orchVars, conflictVars,
                  periodicVars, latestVars, walkVars, datedVars, stdoutVars,
                  watchVars, promptVars>>
exceptBusy == <<cfgVars, progVars, checkVars, orchVars, conflictVars,
                periodicVars, latestVars, walkVars, datedVars, stdoutVars,
                watchVars, promptVars>>
exceptProgress == <<cfgVars, checkVars, orchVars, conflictVars, periodicVars,
                    latestVars, walkVars, datedVars, stdoutVars, watchVars,
                    promptVars>>
exceptCheck == <<cfgVars, busyVars, progVars, orchVars, conflictVars,
                 periodicVars, latestVars, walkVars, datedVars, stdoutVars,
                 watchVars, promptVars>>
exceptOrch == <<cfgVars, busyVars, progVars, checkVars, latestVars, walkVars,
                datedVars, stdoutVars, watchVars, promptVars>>
exceptLatest == <<cfgVars, busyVars, progVars, checkVars, orchVars,
                  conflictVars, periodicVars, walkVars, datedVars,
                  stdoutVars, watchVars, promptVars>>
exceptWalk == <<cfgVars, busyVars, progVars, checkVars, orchVars,
                conflictVars, periodicVars, latestVars, datedVars,
                stdoutVars, watchVars, promptVars>>
exceptStdout == <<cfgVars, busyVars, progVars, checkVars, orchVars,
                  conflictVars, periodicVars, latestVars, walkVars,
                  datedVars, watchVars, promptVars>>
exceptWatch == <<cfgVars, busyVars, progVars, checkVars, orchVars,
                 conflictVars, periodicVars, stdoutVars, latestVars,
                 walkVars, datedVars, promptVars>>
exceptPrompts == <<cfgVars, busyVars, progVars, orchVars, periodicVars,
                   stdoutVars, watchVars, latestVars, walkVars, datedVars,
                   checkingRls, checks, calls, settled, activePackages,
                   activationListeners>>
exceptDated == <<cfgVars, busyVars, progVars, checkVars, orchVars,
                 conflictVars, periodicVars, latestVars, stdoutVars,
                 watchVars, promptVars>>

(***************************************************************************)
(* Bounds of the model.                                                    *)
(***************************************************************************)
MaxReads == 2       \* fs.readFile calls of one session in flight at once
MaxMessages == 3    \* busy messages one session creates
MaxLegacyEvents == 4 \* legacy build events delivered to one session
MaxCalls == 3       \* calls of checkRls
MaxIgnoreLen == 3   \* characters of the ignore setting
MaxStopping == 1    \* servers stopped whose exit is still to come
MaxFetches == 1     \* calls of fetchLatestDist
MaxErrors == 1      \* connection errors other than ENOTFOUND
MaxTicks == 2       \* ticks of the clock
MaxIndicators == 2  \* progress indicators one session creates
MaxDatedCalls == 3  \* calls of checkDatedDistHasRls
MaxTimerFires == 2  \* periodic timers that fire
MaxFlows == 2       \* update checks and remedies begun
MaxEvents == 2      \* file changes reported in one batch
MaxOutput == 3      \* pieces of text a server writes on its standard output

(***************************************************************************)
(* Per-project configuration: lib/rls-project.js, sendRlsTomlConfig.       *)
(*                                                                         *)
(* A configuration object is a function from the keys it defines to their  *)
(* values; values are written as strings.  Deep equality of two such       *)
(* objects is equality of the functions.                                   *)
(***************************************************************************)
EmptyConfig == [k \in {} |-> ""]

\* the values a key may take in a parsed rls.toml
TomlValues(k) ==
    CASE k = "all_targets" -> {"false"}
      [] k = "features"    -> {"[serde]"}

TomlKeys == {"all_targets", "features"}

\* the objects toml.parse can return
TomlConfigs ==
    UNION {[S -> {"false", "[serde]"}] : S \in SUBSET TomlKeys}

ParsedTomls == {c \in TomlConfigs : \A k \in DOMAIN c : c[k] \in TomlValues(k)}

\* what fs.readFile finds: no file (err), a file toml.parse throws on, or
\* a file that parses to cfg
RlsTomlFiles ==
    {[kind |-> "missing", cfg |-> EmptyConfig],
     [kind |-> "malformed", cfg |-> EmptyConfig]}
    \cup {[kind |-> "ok", cfg |-> c] : c \in ParsedTomls}

\* the package settings read by defaultConfig
DefaultSettings ==
    [allTargets : {"On", "Rls Default"},
     clippyPreference : {"On", "Rls Default"}]

\* RlsProject.defaultConfig()
defaultConfig(settings) ==
    LET keys == (IF settings.allTargets \in {"On", "Off"}
                    THEN {"all_targets"} ELSE {})
                \cup (IF settings.clippyPreference # "Rls Default"
                         THEN {"clippy_preference"} ELSE {})
    IN  [k \in keys |->
            IF k = "all_targets"
               THEN (IF settings.allTargets = "On" THEN "true" ELSE "false")
               ELSE settings.clippyPreference]

\* mutant: the defaults win over the file
ObjectAssignTargetWins(target, source) ==
    [k \in DOMAIN target \cup DOMAIN source |->
        IF k \in DOMAIN target THEN target[k] ELSE source[k]]

\* Object.assign(target, source): source's own keys overwrite target's
ObjectAssign(target, source) ==
    [k \in DOMAIN target \cup DOMAIN source |->
        IF k \in DOMAIN source THEN source[k] ELSE target[k]]

\* mutant: without a file that parses, nothing is sent
mergedConfigFileOnly(data, settings) ==
    IF data.kind = "ok"
       THEN ObjectAssign(defaultConfig(settings), data.cfg)
       ELSE EmptyConfig

\* the config computed in the readFile callback from what was read
mergedConfig(data, settings) ==
    IF data.kind = "ok"
       THEN ObjectAssign(defaultConfig(settings), data.cfg)
       ELSE defaultConfig(settings)

\* mutant: a new session counts the empty configuration as sent
NullConfigEmpty == [isNull |-> FALSE, value |-> EmptyConfig]

\* _lastSentConfig: null, or the object last pushed
NullConfig == [isNull |-> TRUE, value |-> EmptyConfig]
SomeConfig(c) == [isNull |-> FALSE, value |-> c]

\* mutant: the comparison never suppresses a push
isEqualNever(config, last) == FALSE

\* _.isEqual(config, this._lastSentConfig); an object never equals null
isEqual(config, last) == ~last.isNull /\ config = last.value

\* what the connection has seen: nothing yet, or the last payload with the
\* file contents and the defaults it was computed from
NoPush == [pushed |-> FALSE, settings |-> [rust |-> EmptyConfig],
           data |-> [kind |-> "missing", cfg |-> EmptyConfig],
           defaults |-> [allTargets |-> "Rls Default",
                         clippyPreference |-> "Rls Default"]]

\* the progress ids the server uses
Tokens == {"t1", "t2"}

\* the busy-indicator state of a session right after its construction
NewBusyState ==
    /\ messages = <<>>
    /\ progress = [t \in Tokens |-> 0]
    /\ rustDocBusyMessage = 0
    /\ exited = FALSE
    /\ legacyHist = <<>>
    /\ legacyDropped = FALSE

\* no $/progress event delivered yet
NewProgressState ==
    /\ lastKind = [t \in Tokens |-> "none"]
    /\ progressDropped = FALSE

IdleBusy == busySignalService = TRUE /\ NewBusyState /\ NewProgressState

\* the orchestrator module right after it is loaded
NewCheckState ==
    /\ checkingRls = 0
    /\ checks = <<>>
    /\ calls = <<>>
    /\ settled = 0

IdleCheck == rlsToolchain = "" /\ NewCheckState

\* the orchestrator right after its construction: no flag set, nothing
\* starting, no server, no project
NoStep == [op |-> "none", path |-> <<>>, effects |-> {}]

NoResult == [path |-> <<>>, state |-> "none", value |-> <<>>]

NewOrchState ==
    /\ flags = [periodicUpdateChecking |-> FALSE,
                conflictingPackageChecking |-> FALSE,
                warnedAboutRlsCommandOverride |-> FALSE]
    /\ starting = [r \in roots |-> "none"]
    /\ servers = {}
    /\ projects = {}
    /\ lastStep = NoStep
    /\ trail = [r \in roots |-> <<>>]
    /\ lastResult = NoResult
    /\ notices = 0
    /\ activePackages = {}
    /\ notifications = <<>>
    /\ activationListeners = 0
    /\ chains = <<>>
    /\ timers = {}
    /\ lastTimer = 0
    /\ timerFires = 0
    /\ deactivated = FALSE
    /\ checkedAfterDeactivate = FALSE

IdleOrch ==
    /\ ignoredProjectPaths = <<>>
    /\ rlsCommandOverride = FALSE
    /\ roots = {}
    /\ NewOrchState

\* the clock when the package is loaded, in ticks (see aDayMillis)
Epoch == 200

\* no server process has written anything
IdleStdout ==
    /\ stdout = <<>>
    /\ delivered = <<>>
    /\ logged = <<>>

\* no project is tracked, no file change has been reported
IdleWatch ==
    /\ projectKeys = <<>>
    /\ resent = <<>>

\* update checking is on by default; no override known, nothing called
IdlePrompts ==
    /\ checkForToolchainUpdates = TRUE
    /\ activeOverrides = {}
    /\ flows = <<>>

\* dist-fetch.js right after it is loaded: nothing fetched, an empty cache
IdleLatest ==
    /\ fetches = <<>>
    /\ suggested = [state |-> "none", value |-> <<>>]

NewWalkState ==
    /\ datedNightlyHasRlsCache = <<>>
    /\ walks = <<>>
    /\ errors = 0

\* no call of checkDatedDistHasRls made yet
NewDatedState ==
    /\ requests = <<>>
    /\ datedCalls = <<>>

IdleWalk == now = Epoch /\ NewWalkState /\ NewDatedState

NoData == [kind |-> "missing", cfg |-> EmptyConfig]

\* no readFile callback has run yet
NoCallback == [did |-> "none", warned |-> FALSE]

\* a session right after its construction
NewConfigState ==
    /\ lastSentConfig = NullConfig
    /\ reads = <<>>
    /\ lastPush = NoPush
    /\ lastCallback = NoCallback

InitConfig ==
    /\ rlsToml \in RlsTomlFiles
    /\ rlsDefaultConfig \in DefaultSettings
    /\ NewConfigState

IdleConfig ==
    /\ rlsToml = NoData
    /\ rlsDefaultConfig = [allTargets |-> "Rls Default",
                           clippyPreference |-> "Rls Default"]
    /\ NewConfigState

\* the components a specification leaves alone
IdleExceptConfig ==
    /\ IdleBusy /\ IdleCheck /\ IdleOrch /\ IdleLatest /\ IdleWalk
    /\ IdleStdout /\ IdleWatch
    /\ IdlePrompts
IdleExceptBusy ==
    /\ IdleConfig /\ IdleCheck /\ IdleOrch /\ IdleLatest /\ IdleWalk
    /\ IdleStdout /\ IdleWatch
    /\ NewProgressState
    /\ IdlePrompts
IdleExceptProgress ==
    /\ IdleConfig /\ IdleCheck /\ IdleOrch /\ IdleLatest /\ IdleWalk
    /\ IdleStdout /\ IdleWatch
    /\ IdlePrompts
IdleExceptCheck ==
    /\ IdleConfig /\ IdleBusy /\ IdleOrch /\ IdleLatest /\ IdleWalk
    /\ IdleStdout /\ IdleWatch
    /\ IdlePrompts
IdleExceptOrch ==
    /\ IdleConfig /\ IdleBusy /\ IdleCheck /\ IdleLatest /\ IdleWalk
    /\ IdleStdout /\ IdleWatch
    /\ IdlePrompts
IdleExceptLatest ==
    /\ IdleConfig /\ IdleBusy /\ IdleCheck /\ IdleOrch /\ IdleWalk
    /\ IdleStdout /\ IdleWatch
    /\ IdlePrompts
IdleExceptWalk ==
    /\ IdleConfig /\ IdleBusy /\ IdleCheck /\ IdleOrch /\ IdleLatest
    /\ IdleStdout /\ IdleWatch
    /\ NewDatedState
    /\ IdlePrompts
IdleExceptStdout ==
    /\ IdleConfig /\ IdleBusy /\ IdleCheck /\ IdleOrch /\ IdleLatest
    /\ IdleWalk /\ IdleWatch
    /\ IdlePrompts
IdleExceptWatch ==
    /\ IdleConfig /\ IdleBusy /\ IdleCheck /\ IdleOrch /\ IdleLatest
    /\ IdleWalk /\ IdleStdout
    /\ IdlePrompts
IdleExceptPrompts ==
    /\ IdleConfig /\ IdleBusy /\ NewCheckState /\ IdleOrch /\ IdleLatest
    /\ IdleWalk /\ IdleStdout /\ IdleWatch
IdleExceptDated ==
    /\ IdleConfig /\ IdleBusy /\ IdleCheck /\ IdleOrch /\ IdleLatest
    /\ IdleStdout /\ IdleWatch
    /\ IdlePrompts

RemoveAt(seq, i) == SubSeq(seq, 1, i - 1) \o SubSeq(seq, i + 1, Len(seq))

\* sendRlsTomlConfig(): issues fs.readFile and returns
sendRlsTomlConfig ==
    /\ Len(reads) < MaxReads
    /\ reads' = Append(reads, [st |-> "issued", data |-> NoData])
    /\ UNCHANGED <<rlsToml, rlsDefaultConfig, lastSentConfig, lastPush,
                   lastCallback>>
    /\ UNCHANGED exceptConfig

\* the file system serves read i: the data is the file as it is now
fsReadFile(i) ==
    /\ reads[i].st = "issued"
    /\ reads' = [reads EXCEPT ![i] = [st |-> "read", data |-> rlsToml]]
    /\ UNCHANGED <<rlsToml, rlsDefaultConfig, lastSentConfig, lastPush,
                   lastCallback>>
    /\ UNCHANGED exceptConfig

\* connection.didChangeConfiguration(payload), then _lastSentConfig = config
didChangeConfiguration(config, data) ==
    /\ lastPush' = [pushed |-> TRUE, settings |-> [rust |-> config],
                    data |-> data, defaults |-> rlsDefaultConfig]
    /\ lastSentConfig' = SomeConfig(config)

\* toml.parse(data) throws, and the catch logs `Failed to read ...`
parseThrows(data) == data.kind = "malformed"

\* the callback given to fs.readFile, for read i (reads complete in any order)
readFileCallback(i) ==
    /\ reads[i].st = "read"
    /\ LET config == mergedConfig(reads[i].data, rlsDefaultConfig)
       IN  IF isEqual(config, lastSentConfig)
              THEN /\ lastCallback' = [did |-> "skipped",
                                        warned |-> parseThrows(reads[i].data)]
                   /\ UNCHANGED <<lastSentConfig, lastPush>>
              ELSE /\ lastCallback' = [did |-> "pushed",
                                        warned |-> parseThrows(reads[i].data)]
                   /\ didChangeConfiguration(config, reads[i].data)
    /\ reads' = RemoveAt(reads, i)
    /\ UNCHANGED <<rlsToml, rlsDefaultConfig>>
    /\ UNCHANGED exceptConfig

\* the user (or a tool) rewrites or removes rls.toml
writeRlsToml(f) ==
    /\ f # rlsToml
    /\ rlsToml' = f
    /\ UNCHANGED <<rlsDefaultConfig, lastSentConfig, reads, lastPush,
                   lastCallback>>
    /\ UNCHANGED exceptConfig

\* the user changes the package's default Rls configuration
setRlsDefaultConfig(d) ==
    /\ d # rlsDefaultConfig
    /\ rlsDefaultConfig' = d
    /\ UNCHANGED <<rlsToml, lastSentConfig, reads, lastPush, lastCallback>>
    /\ UNCHANGED exceptConfig

NextConfig ==
    \/ sendRlsTomlConfig
    \/ \E i \in 1..Len(reads) : fsReadFile(i)
    \/ \E i \in 1..Len(reads) : readFileCallback(i)
    \/ \E f \in RlsTomlFiles : writeRlsToml(f)
    \/ \E d \in DefaultSettings : setRlsDefaultConfig(d)

InitSpecConfig == InitConfig /\ IdleExceptConfig

SpecConfig == InitSpecConfig /\ [][NextConfig]_vars

\* a session as postInitialization leaves it: just constructed, with the
\* read of its first sendRlsTomlConfig() issued
InitFirstPush ==
    /\ rlsToml \in RlsTomlFiles
    /\ rlsDefaultConfig \in DefaultSettings
    /\ lastSentConfig = NullConfig
    /\ reads = <<[st |-> "issued", data |-> NoData]>>
    /\ lastPush = NoPush
    /\ lastCallback = NoCallback

\* the session from then on, while the file changes and is re-read
NextFirstPush ==
    \/ sendRlsTomlConfig
    \/ \E i \in 1..Len(reads) : fsReadFile(i)
    \/ \E i \in 1..Len(reads) : readFileCallback(i)
    \/ \E f \in RlsTomlFiles : writeRlsToml(f)

InitSpecFirstPush == InitFirstPush /\ IdleExceptConfig

\* every read issued completes, and the callback of a completed read runs
SpecFirstPush ==
    /\ InitSpecFirstPush
    /\ [][NextFirstPush]_vars
    /\ WF_vars(\E i \in 1..Len(reads) : fsReadFile(i))
    /\ WF_vars(\E i \in 1..Len(reads) : readFileCallback(i))

\* rls.toml of a tracked project is rewritten or removed: the file watcher
\* reports the change and onDidChangeFiles calls sendRlsTomlConfig(), which
\* issues fs.readFile and returns
rlsTomlChanged(f) ==
    /\ f # rlsToml
    /\ Len(reads) < MaxReads
    /\ rlsToml' = f
    /\ reads' = Append(reads, [st |-> "issued", data |-> NoData])
    /\ UNCHANGED <<rlsDefaultConfig, lastSentConfig, lastPush, lastCallback>>
    /\ UNCHANGED exceptConfig

\* a session from postInitialization on whose every change of rls.toml is
\* followed by a call of sendRlsTomlConfig, the package defaults staying
NextReread ==
    \/ \E f \in RlsTomlFiles : rlsTomlChanged(f)
    \/ \E i \in 1..Len(reads) : fsReadFile(i)
    \/ \E i \in 1..Len(reads) : readFileCallback(i)

SpecReread == InitSpecFirstPush /\ [][NextReread]_vars

(***************************************************************************)
(* Claims about the configuration push, checked under SpecConfig.          *)
(***************************************************************************)

\* C1: sendRlsTomlConfig is idempotent: a didChangeConfiguration push is
\* made only when the merged configuration is not deep-equal to the payload
\* this session pushed last, so no two consecutive pushes of a session
\* carry deep-equal payloads.
C1_NoRedundantPush ==
    [][Len(reads') < Len(reads) /\ lastCallback'.did = "pushed"
          /\ lastPush.pushed
          => lastPush'.settings # lastPush.settings]_vars

\* a callback that suppressed its push, after a push made from a file that
\* has changed since
C1_Witness ==
    /\ lastCallback.did = "skipped"
    /\ lastPush.pushed
    /\ lastPush.data # rlsToml

\* the object toml.parse returned for the data of a push ({} when the file
\* was missing or did not parse)
fileConfigOf(push) ==
    IF push.data.kind = "ok" THEN push.data.cfg ELSE EmptyConfig

\* C8: the payload pushed is { settings: { rust: C } } where C holds every
\* key of the parsed rls.toml with the file's value, and every package
\* default key the file does not define with its default value; a file
\* defining only features = ["serde"], over defaults that do not define
\* features, yields rust.features = ["serde"].
C8_PayloadIsFileOverDefaults ==
    lastPush.pushed =>
        LET C == lastPush.settings.rust
            F == fileConfigOf(lastPush)
            D == defaultConfig(lastPush.defaults)
        IN  /\ DOMAIN lastPush.settings = {"rust"}
            /\ DOMAIN C = DOMAIN F \cup DOMAIN D
            /\ \A k \in DOMAIN F : C[k] = F[k]
            /\ \A k \in DOMAIN D \ DOMAIN F : C[k] = D[k]
            /\ (lastPush.data.kind = "ok" /\ DOMAIN F = {"features"}
                   /\ F["features"] = "[serde]")
                  => C["features"] = "[serde]"

\* a push whose file and defaults both define all_targets, and one of
\* a file defining only features
C8_Witness ==
    /\ lastPush.pushed
    /\ lastPush.data.kind = "ok"
    /\ "all_targets" \in DOMAIN lastPush.data.cfg
    /\ lastPush.defaults.allTargets = "On"
    /\ lastPush.settings.rust["all_targets"] = "false"
    /\ "clippy_preference" \in DOMAIN lastPush.settings.rust

\* C35: when several sendRlsTomlConfig calls of a session are in flight,
\* the file having changed between them, then once all the reads have
\* completed, in whatever order, the last payload pushed and the last-sent
\* configuration are the merged configuration of the file's latest content.
C35_LatestContentWins ==
    reads = <<>> =>
       LET config == mergedConfig(rlsToml, rlsDefaultConfig)
       IN  /\ lastPush.pushed
           /\ lastPush.settings = [rust |-> config]
           /\ lastSentConfig = SomeConfig(config)

\* C29: a session gets at least one didChangeConfiguration push after
\* postInitialization, whether rls.toml is absent, empty, malformed or
\* valid, provided the reads complete and their callbacks run.
C29_FirstPushArrives == <>lastPush.pushed

\* the first push of a session whose rls.toml does not parse, made while a
\* later read is still to complete
C29_Witness ==
    /\ lastPush.pushed
    /\ lastPush.data.kind = "malformed"
    /\ Len(reads) = 1

\* C23: when rls.toml is missing or does not parse, the readFile callback
\* does not fail: the configuration it considers is exactly the package
\* default one, pushed unless deep-equal to the last payload sent, and a
\* warning is logged when, and only when, the file did not parse.
C23_DefaultsWhenNoUsableFile ==
    [][\A i \in 1..Len(reads) :
          (reads[i].st = "read" /\ reads[i].data.kind # "ok"
              /\ Len(reads') < Len(reads) /\ reads' = RemoveAt(reads, i)) =>
             LET D == defaultConfig(rlsDefaultConfig)
             IN  /\ lastCallback'.warned = (reads[i].data.kind = "malformed")
                 /\ IF lastSentConfig = SomeConfig(D)
                       THEN /\ lastCallback'.did = "skipped"
                            /\ lastPush' = lastPush
                            /\ lastSentConfig' = lastSentConfig
                       ELSE /\ lastCallback'.did = "pushed"
                            /\ lastPush'.settings = [rust |-> D]
                            /\ lastSentConfig' = SomeConfig(D)]_vars

\* a malformed file was read with defaults that define keys: the warning
\* was logged and the defaults were pushed
C23_Witness ==
    /\ lastCallback = [did |-> "pushed", warned |-> TRUE]
    /\ lastPush.data.kind = "malformed"
    /\ lastPush.settings.rust = defaultConfig(lastPush.defaults)
    /\ DOMAIN lastPush.settings.rust = {"all_targets", "clippy_preference"}

(***************************************************************************)
(* Busy indicators of one session: lib/rls-project.js, the handlers the    *)
(* RlsProject constructor registers.                                       *)
(*                                                                         *)
(* messages[i] is the i-th BusyMessage reportBusy returned: disposed       *)
(* counts its dispose() calls (2 stands for two or more), count is the     *)
(* .count the legacy handlers keep on it, pct and msg are its              *)
(* lastProgressPercentage and lastProgressMessage, title is its text.      *)
(* A percentage of -1 and a message of "" stand for an absent value.       *)
(***************************************************************************)
Percentages == {-1, 50}
Messages == {""}

InitBusy ==
    /\ busySignalService \in BOOLEAN
    /\ NewBusyState

\* busySignal.reportBusy(text): a new, undisposed message
reportBusy(kind, count, pct, msg) ==
    [kind |-> kind, disposed |-> 0, count |-> count, pct |-> pct, msg |-> msg,
     title |-> <<pct, msg>>]

\* BusyMessage.dispose()
dispose(m) == [m EXCEPT !.disposed = IF m.disposed = 0 THEN 1 ELSE 2]

\* the host provides or withdraws the busy signal service
\* (getBusySignalService is `() => this.busySignalService`)
consumeBusySignal ==
    /\ busySignalService' = ~busySignalService
    /\ UNCHANGED <<messages, progress, rustDocBusyMessage, exited,
                   legacyHist, legacyDropped>>
    /\ UNCHANGED exceptBusy

\* onCustom('window/progress', params) with params = {id, message,
\* percentage, done}
windowProgress(id, pct, msg, done) ==
    /\ IF ~busySignalService
          THEN UNCHANGED <<messages, progress>>
          ELSE LET busyMessage == progress[id]
               IN  IF done
                      THEN /\ messages' =
                                IF busyMessage # 0
                                   THEN [messages EXCEPT ![busyMessage] = dispose(@)]
                                   ELSE messages
                           /\ progress' = [progress EXCEPT ![id] = 0]
                      ELSE IF busyMessage # 0
                              THEN LET percentage ==
                                           IF pct > 0 THEN pct
                                              ELSE messages[busyMessage].pct
                                       message ==
                                           IF msg # "" THEN msg
                                              ELSE messages[busyMessage].msg
                                   IN  /\ messages' =
                                            [messages EXCEPT ![busyMessage] =
                                                [@ EXCEPT !.title = <<percentage, message>>,
                                                          !.pct = percentage,
                                                          !.msg = message]]
                                       /\ UNCHANGED progress
                              ELSE /\ Len(messages) < MaxMessages
                                   /\ messages' = Append(messages,
                                          reportBusy("progress", 0, pct, msg))
                                   /\ progress' = [progress EXCEPT ![id] = Len(messages) + 1]
    /\ UNCHANGED <<busySignalService, rustDocBusyMessage, exited, legacyHist,
                   legacyDropped>>
    /\ UNCHANGED exceptBusy

\* onCustom('rustDocument/beginBuild')
beginBuild ==
    /\ Len(legacyHist) < MaxLegacyEvents
    /\ legacyHist' = Append(legacyHist, "begin")
    /\ IF rustDocBusyMessage # 0
          THEN /\ messages' = [messages EXCEPT ![rustDocBusyMessage].count = @ + 1]
               /\ UNCHANGED <<rustDocBusyMessage, legacyDropped>>
          ELSE IF busySignalService
                  THEN /\ Len(messages) < MaxMessages
                       /\ messages' = Append(messages, reportBusy("legacy", 1, -1, ""))
                       /\ rustDocBusyMessage' = Len(messages) + 1
                       /\ UNCHANGED legacyDropped
                  ELSE /\ legacyDropped' = TRUE
                       /\ UNCHANGED <<messages, rustDocBusyMessage>>
    /\ UNCHANGED <<busySignalService, progress, exited>>
    /\ UNCHANGED exceptBusy

\* mutant: the indicator is disposed at every diagnosticsEnd
countIsZeroAlways(count) == TRUE

\* `this._rustDocBusyMessage.count === 0`
countIsZero(count) == count = 0

\* onCustom('rustDocument/diagnosticsEnd')
diagnosticsEnd ==
    /\ Len(legacyHist) < MaxLegacyEvents
    /\ legacyHist' = Append(legacyHist, "end")
    /\ IF rustDocBusyMessage # 0 /\ messages[rustDocBusyMessage].count > 0
          THEN LET count == messages[rustDocBusyMessage].count - 1
               IN  IF countIsZero(count)
                      THEN /\ messages' = [messages EXCEPT ![rustDocBusyMessage] =
                                              dispose([@ EXCEPT !.count = count])]
                           /\ rustDocBusyMessage' = 0
                      ELSE /\ messages' = [messages EXCEPT
                                              ![rustDocBusyMessage].count = count]
                           /\ UNCHANGED rustDocBusyMessage
          ELSE UNCHANGED <<messages, rustDocBusyMessage>>
    /\ UNCHANGED <<busySignalService, progress, exited, legacyDropped>>
    /\ UNCHANGED exceptBusy

\* mutant: the exit handler of the first RlsProject, which knows only the
\* legacy build indicator
exitDisposalsLegacyOnly(i) == i = rustDocBusyMessage

\* the messages the exit handler disposes: every value of _progress, and
\* _rustDocBusyMessage when set
exitDisposals(i) ==
    \/ \E t \in Tokens : progress[t] = i
    \/ i = rustDocBusyMessage

\* server.process.on('exit'): clean up any busy messages
processExit ==
    /\ ~exited
    /\ exited' = TRUE
    /\ messages' = [i \in 1..Len(messages) |->
                       IF exitDisposals(i) THEN dispose(messages[i])
                                           ELSE messages[i]]
    /\ progress' = [t \in Tokens |-> 0]
    /\ UNCHANGED <<busySignalService, rustDocBusyMessage, legacyHist,
                   legacyDropped>>
    /\ UNCHANGED exceptBusy

NextBusy ==
    \/ consumeBusySignal
    \/ \E id \in Tokens, pct \in Percentages, msg \in Messages, done \in BOOLEAN :
          windowProgress(id, pct, msg, done)
    \/ beginBuild
    \/ diagnosticsEnd
    \/ processExit

InitSpecBusy == InitBusy /\ IdleExceptBusy

SpecBusy == InitSpecBusy /\ [][NextBusy]_vars

(***************************************************************************)
(* Claims about the busy indicators, checked under SpecBusy.               *)
(***************************************************************************)
\* C34: no busy indicator of the session has dispose() called on it more
\* than once, however the legacy begin and end events, the progress events
\* and the process exit interleave, events delivered after the exit
\* handler included.
C34_DisposedAtMostOnce ==
    \A i \in 1..Len(messages) : messages[i].disposed <= 1

RECURSIVE pendingBuilds(_)
\* the builds still pending after a history of legacy events: a beginBuild
\* starts one, a diagnosticsEnd ends one if any is pending
pendingBuilds(hist) ==
    IF hist = <<>> THEN 0
    ELSE LET n == pendingBuilds(SubSeq(hist, 1, Len(hist) - 1))
         IN  IF hist[Len(hist)] = "begin" THEN n + 1
             ELSE IF n > 0 THEN n - 1 ELSE 0

\* C3: for every sequence of legacy beginBuild / diagnosticsEnd events on
\* a session (process not exited, busy service there at the first begin)
\* the pending-build count never goes below zero, and the indicator
\* created by the first begin is shown while builds are pending and is
\* disposed exactly once, at the diagnosticsEnd that brings the count to
\* zero: after begin, begin, end it is shown, after a further end disposed.
C3_LegacyIndicator ==
    /\ \A i \in 1..Len(messages) : messages[i].count >= 0
    /\ (~exited /\ ~legacyDropped) =>
          /\ rustDocBusyMessage # 0 <=> pendingBuilds(legacyHist) > 0
          /\ rustDocBusyMessage # 0 =>
                /\ messages[rustDocBusyMessage].kind = "legacy"
                /\ messages[rustDocBusyMessage].count = pendingBuilds(legacyHist)
                /\ messages[rustDocBusyMessage].disposed = 0
          /\ \A i \in 1..Len(messages) :
                (messages[i].kind = "legacy" /\ i # rustDocBusyMessage)
                   => messages[i].disposed = 1 /\ messages[i].count = 0

\* begin, begin, end, end delivered: the one indicator is disposed, once
C3_Witness ==
    /\ legacyHist = <<"begin", "begin", "end", "end">>
    /\ ~exited /\ ~legacyDropped
    /\ rustDocBusyMessage = 0
    /\ \E i \in 1..Len(messages) :
          messages[i].kind = "legacy" /\ messages[i].disposed = 1

\* C10: when the server process exits, every busy indicator the session
\* created and has not yet disposed (every entry of the token map and the
\* legacy build indicator) is disposed and the token map is emptied, so
\* that right after the exit no indicator of the session is undisposed.
C10_ExitDisposesAll ==
    [][(~exited /\ exited') =>
          /\ \A i \in 1..Len(messages') : messages'[i].disposed >= 1
          /\ \A t \in Tokens : progress'[t] = 0]_vars

\* an exit that found the legacy indicator and two token entries pending
C10_Witness ==
    /\ exited
    /\ rustDocBusyMessage # 0
    /\ messages[rustDocBusyMessage].disposed = 1
    /\ Len(messages) = 3
    /\ \A i \in 1..Len(messages) : messages[i].disposed = 1
    /\ \A t \in Tokens : progress[t] = 0
    /\ legacyHist = <<"begin">>

(***************************************************************************)
(* Progress indicators of one session: lib/rust-project.js, the handler    *)
(* RustProject registers for `$/progress`.                                 *)
(*                                                                         *)
(* A field of an event, and a value kept on a BusyMessage, is <<>> when    *)
(* it is undefined and <<v>> when it is v.  Percentages are counted in     *)
(* halves of a percent.  The text of an indicator is written as the record *)
(* of its three parts.                                                     *)
(***************************************************************************)
Kinds == {"begin", "report", "end"}
Titles == {<<>>, <<"T">>}
ProgressMessages == {<<>>, <<"m">>}
ProgressPercentages == {<<>>, <<0>>, <<99>>}

\* the `value` of a $/progress notification
ProgressValues ==
    [kind : Kinds, title : Titles, message : ProgressMessages,
     percentage : ProgressPercentages]

\* a number is truthy unless it is undefined or 0
truthyNumber(x) == x # <<>> /\ x[1] # 0

\* a string is truthy unless it is undefined or empty
truthyString(x) == x # <<>> /\ x[1] # ""

\* percentage.toFixed(): the nearest whole number, a half rounded up
toFixed(halves) == (halves + 1) \div 2

\* the text built from title, percentage and message
busyText(title, percentage, message) ==
    [title |-> IF truthyString(title) THEN title[1] ELSE "r.a",
     percentage |-> IF truthyNumber(percentage)
                       THEN <<toFixed(percentage[1])>> ELSE <<>>,
     message |-> IF truthyString(message) THEN message ELSE <<>>]

\* a BusyMessage the session has disposed and refers to no more: only the
\* number of its dispose() calls is kept
released(m) ==
    [kind |-> "progress", disposed |-> dispose(m).disposed, count |-> 0,
     title |-> busyText(<<>>, <<>>, <<>>), pct |-> <<>>, msg |-> <<>>,
     ttl |-> <<>>]

\* mutant: the entry of an ended token is kept
progressDeleteNever(map, token) == map

\* this._progress.delete(token)
progressDelete(map, token) == [map EXCEPT ![token] = 0]

InitProgress ==
    /\ busySignalService \in BOOLEAN
    /\ NewBusyState
    /\ NewProgressState

\* onProgress({ token, value })
onProgress(token, value) ==
    /\ IF ~busySignalService
          THEN /\ progressDropped' = TRUE
               /\ UNCHANGED <<messages, progress, lastKind>>
          ELSE LET busyMessage == progress[token]
                   done == value.kind = "end"
                   stored == messages[busyMessage]
                   percentage ==
                       IF busyMessage # 0 /\ ~truthyNumber(value.percentage)
                          THEN stored.pct ELSE value.percentage
                   message ==
                       IF busyMessage # 0 /\ ~truthyString(value.message)
                          THEN stored.msg ELSE value.message
                   title ==
                       IF busyMessage # 0 /\ ~truthyString(value.title)
                          THEN stored.ttl ELSE value.title
                   text == busyText(title, percentage, message)
               IN  /\ lastKind' = [lastKind EXCEPT ![token] = value.kind]
                   /\ UNCHANGED progressDropped
                   /\ IF done
                         THEN /\ messages' =
                                   IF busyMessage # 0
                                      THEN [messages EXCEPT ![busyMessage] = released(@)]
                                      ELSE messages
                              /\ progress' = progressDelete(progress, token)
                      ELSE IF busyMessage # 0
                         THEN /\ messages' =
                                   [messages EXCEPT ![busyMessage] =
                                       [@ EXCEPT !.title = text,
                                                 !.pct = percentage,
                                                 !.msg = message,
                                                 !.ttl = title]]
                              /\ UNCHANGED progress
                      ELSE /\ Len(messages) < MaxIndicators
                           /\ messages' = Append(messages,
                                 [kind |-> "progress", disposed |-> 0,
                                  count |-> 0, title |-> text,
                                  pct |-> percentage, msg |-> message,
                                  ttl |-> title])
                           /\ progress' = [progress EXCEPT ![token] = Len(messages) + 1]
    /\ UNCHANGED <<busySignalService, rustDocBusyMessage, exited, legacyHist,
                   legacyDropped>>
    /\ UNCHANGED exceptProgress

\* server.process.on("exit"): clean up any busy messages
rustProcessExit ==
    /\ ~exited
    /\ exited' = TRUE
    /\ messages' = [i \in 1..Len(messages) |->
                       IF \E t \in Tokens : progress[t] = i
                          THEN released(messages[i]) ELSE messages[i]]
    /\ progress' = [t \in Tokens |-> 0]
    /\ UNCHANGED <<busySignalService, rustDocBusyMessage, legacyHist,
                   legacyDropped>>
    /\ UNCHANGED progVars
    /\ UNCHANGED exceptProgress

NextProgress ==
    \/ consumeBusySignal
    \/ \E token \in Tokens, value \in ProgressValues : onProgress(token, value)
    \/ rustProcessExit

InitSpecProgress == InitProgress /\ IdleExceptProgress

SpecProgress == InitSpecProgress /\ [][NextProgress]_vars

(***************************************************************************)
(* Claims about the progress indicators, checked under SpecProgress.       *)
(***************************************************************************)
\* the tokens the progress map has an entry for
mapped == {t \in Tokens : progress[t] # 0}

\* what the map and the indicators are after a sequence of events
C11_Map ==
    (~progressDropped /\ ~exited) =>
       /\ mapped = {t \in Tokens : lastKind[t] \in {"begin", "report"}}
       /\ \A t \in mapped :
             /\ progress[t] \in 1..Len(messages)
             /\ messages[progress[t]].disposed = 0
             /\ \A u \in mapped : progress[u] = progress[t] => u = t
       /\ \A i \in 1..Len(messages) :
             (\A t \in mapped : progress[t] # i) => messages[i].disposed = 1

\* what the event value for token does to the map and the indicators
C11_Event(token, value) ==
    LET i == progress[token]
        n == Len(messages)
    IN  IF value.kind = "end"
           THEN IF i = 0
                   THEN messages' = messages /\ progress' = progress
                   ELSE /\ messages[i].disposed = 0
                        /\ Len(messages') = n
                        /\ \A j \in 1..n : j # i => messages'[j] = messages[j]
                        /\ messages'[i].disposed = 1
                        /\ progress' = [progress EXCEPT ![token] = 0]
        ELSE IF i = 0
           THEN /\ Len(messages') = n + 1
                /\ SubSeq(messages', 1, n) = messages
                /\ messages'[n + 1].disposed = 0
                /\ progress' = [progress EXCEPT ![token] = n + 1]
        ELSE /\ progress' = progress
             /\ Len(messages') = n
             /\ \A j \in 1..n : j # i => messages'[j] = messages[j]
             /\ messages'[i].disposed = 0

\* C11: with a busy service there, after any sequence of $/progress events
\* the progress map holds exactly the tokens whose latest event was not an
\* end; each of them owns one undisposed indicator, created by its first
\* event that was not an end and only retitled by the later ones; an end
\* disposes the indicator of its token once and removes the entry, and an
\* end for a token without entry changes nothing.
C11_TokenIndicators ==
    /\ []C11_Map
    /\ [][(busySignalService /\ ~progressDropped /\ ~exited) =>
             \A token \in Tokens :
                \A value \in {v \in ProgressValues : v.kind = lastKind'[token]} :
                   onProgress(token, value) => C11_Event(token, value)]_vars

\* t1 began and ended, t2 began and goes on reporting: one indicator
\* disposed once, one shown with the latest report
C11_Witness ==
    /\ ~progressDropped /\ ~exited
    /\ lastKind = [t \in Tokens |-> IF t = "t1" THEN "end" ELSE "report"]
    /\ Len(messages) = 2
    /\ messages[1].disposed = 1
    /\ progress = [t \in Tokens |-> IF t = "t1" THEN 0 ELSE 2]
    /\ messages[2].disposed = 0
    /\ messages[2].pct = <<99>> /\ messages[2].msg = <<"m">>

\* the value of a field after an event: the one the event carries, or the
\* one stored when the event omits it
carried(field, stored) == IF field # <<>> THEN field ELSE stored

\* C12: on an event that is not an end, for a token that has an entry,
\* the percentage, message and title kept for the token and shown in the
\* text are those of the event where it carries them (a percentage of 0
\* too), and the ones kept before where it omits them.
C12_CarriedValuesWin ==
    [][\A token \in Tokens, value \in ProgressValues :
          (busySignalService /\ value.kind # "end" /\ progress[token] # 0
              /\ onProgress(token, value))
             => LET old == messages[progress[token]]
                    new == messages'[progress[token]]
                    percentage == carried(value.percentage, old.pct)
                    message == carried(value.message, old.msg)
                    title == carried(value.title, old.ttl)
                IN  /\ new.pct = percentage
                    /\ new.msg = message
                    /\ new.ttl = title
                    /\ new.title.percentage =
                          IF percentage = <<>> THEN <<>>
                          ELSE <<toFixed(percentage[1])>>
                    /\ new.title.message = message
                    /\ title # <<>> => new.title.title = title[1]]_vars

(***************************************************************************)
(* Component check and installer: lib/index.js, checkRls and               *)
(* installRlsComponents.                                                   *)
(*                                                                         *)
(* A check is the promise stored in _checkingRls: the async function that  *)
(* probes rustup, lists the components and installs the missing ones.      *)
(* Each command is an exec; the action named ...Done is the turn that runs *)
(* when the command ends, up to the next command issued.  When the check   *)
(* settles, the first caller's `finally` and the continuations of all the  *)
(* callers run in the same drain of the microtask queue, before any other  *)
(* event: they are part of the settling turn.                              *)
(*                                                                         *)
(* A working directory is a string, written as a tuple of characters; the  *)
(* empty tuple stands for a cwd that was not passed (undefined).           *)
(***************************************************************************)
Toolchains == {"", "stable", "nightly"}

NoCwd == <<>>
ProjectDirs == {<<"/", "p">>}
Cwds == {NoCwd} \cup ProjectDirs

\* String.prototype.startsWith on strings written as tuples
startsWith(str, prefix) ==
    /\ Len(prefix) <= Len(str)
    /\ SubSeq(str, 1, Len(prefix)) = prefix

\* mutant: the installed version is never found to be the manifest's
endsWithNever(str, suffix) == FALSE

\* String.prototype.endsWith
endsWith(str, suffix) ==
    /\ Len(suffix) <= Len(str)
    /\ SubSeq(str, Len(str) - Len(suffix) + 1, Len(str)) = suffix

\* toolchain.startsWith('nightly'), on the toolchain names of the model
startsWithNightly(toolchain) == toolchain \in {"nightly"}

\* what `rustup override list` can print: a failure, or a list of overrides
OverrideLists ==
    {<<>>,
     <<[path |-> <<"/", "p">>, toolchain |-> "nightly"]>>,
     <<[path |-> <<"/", "q">>, toolchain |-> "beta"]>>}

InitCheck ==
    /\ rlsToolchain \in Toolchains
    /\ NewCheckState

\* the user sets "ide-rust.rlsToolchain"
setRlsToolchain(t) ==
    /\ t # rlsToolchain
    /\ rlsToolchain' = t
    /\ UNCHANGED <<checkingRls, checks, calls, settled>>
    /\ UNCHANGED exceptCheck

\* exec(command): the command starts
exec(c, cmd, arg) ==
    [c EXCEPT !.cmds = Append(@, [cmd |-> cmd, toolchain |-> arg,
                                  status |-> "running"])]

\* the command started last has ended
ended(c, status) == [c EXCEPT !.cmds[Len(c.cmds)].status = status]

\* atom.notifications.addError(...) of installRlsComponents
addError(c, about) ==
    [c EXCEPT !.notes = Append(@,
        [about |-> about,
         names |-> IF c.named = "" THEN "the default toolchain" ELSE c.named,
         override |-> c.usingOverride])]

\* a check that settled before the latest one started: only its outcome is
\* kept (the commands and notifications recorded are those of the checks
\* in flight and of the latest check)
past(c) ==
    IF c.pc # "settled" THEN c
    ELSE [toolchain |-> "", cwd |-> NoCwd, pc |-> "settled",
          outcome |-> c.outcome, cmds |-> <<>>, notes |-> <<>>,
          named |-> "", usingOverride |-> FALSE]

\* mutant: a call never finds a check in flight
ongoingNever(checking) == FALSE

\* `if (_checkingRls) return _checkingRls`
ongoing(checking) == checking # 0

\* checkRls(busySignalService, cwd), up to its first await
checkRls(cwd) ==
    /\ Len(calls) < MaxCalls
    /\ IF ongoing(checkingRls)
          THEN /\ calls' = Append(calls,
                      [check |-> checkingRls, epoch |-> settled,
                       outcome |-> "pending"])
               /\ UNCHANGED <<checkingRls, checks>>
          ELSE /\ checks' = Append([h \in 1..Len(checks) |-> past(checks[h])],
                      exec([toolchain |-> rlsToolchain, cwd |-> cwd,
                            pc |-> "hasRustup", outcome |-> "pending",
                            cmds |-> <<>>, notes |-> <<>>,
                            named |-> rlsToolchain, usingOverride |-> FALSE],
                           "rustup -V", ""))
               /\ checkingRls' = Len(checks) + 1
               /\ calls' = Append(calls,
                      [check |-> Len(checks) + 1, epoch |-> settled,
                       outcome |-> "pending"])
    /\ UNCHANGED <<rlsToolchain, settled>>
    /\ UNCHANGED exceptCheck

\* the check h goes on as c
continue(h, c) ==
    /\ checks' = [checks EXCEPT ![h] = c]
    /\ UNCHANGED <<rlsToolchain, checkingRls, calls, settled>>
    /\ UNCHANGED exceptCheck

\* mutant: the finally leaves the handle as it is
finallyKeeps(checking) == checking

\* `finally { _checkingRls = null }`
finallyClears(checking) == 0

\* the check h, now c, settles with outcome: every caller that holds the
\* promise gets the outcome, and the first caller's finally clears
\* _checkingRls
settle(h, c, outcome) ==
    /\ checks' = [checks EXCEPT ![h] = [c EXCEPT !.pc = "settled",
                                                 !.outcome = outcome]]
    /\ calls' = [i \in 1..Len(calls) |->
                    IF calls[i].check = h
                       THEN [calls[i] EXCEPT !.outcome = outcome]
                       ELSE calls[i]]
    /\ checkingRls' = finallyClears(checkingRls)
    /\ settled' = settled + 1
    /\ UNCHANGED rlsToolchain
    /\ UNCHANGED exceptCheck

\* `await hasCommand("rustup")` ends
hasRustupDone(h, ok) ==
    /\ checks[h].pc = "hasRustup"
    /\ LET c == ended(checks[h], IF ok THEN "ok" ELSE "failed")
       IN  IF ok
              THEN continue(h, [exec(c, "component list", c.toolchain)
                                   EXCEPT !.pc = "list"])
              ELSE continue(h, [exec(c, "rls -V", "") EXCEPT !.pc = "hasRls"])

\* `await hasCommand("rls")` ends
hasRlsDone(h, ok) ==
    /\ checks[h].pc = "hasRls"
    /\ LET c == ended(checks[h], IF ok THEN "ok" ELSE "failed")
       IN  IF ok THEN settle(h, c, "ok")
                 ELSE settle(h, c, "rls & rustup missing")

\* `await exec(...)` returns (and does not throw) when the command succeeded
addSucceeded(status) == status = "ok"

\* `rustup component list` ends; listed tells whether all three components
\* are marked (default) or (installed)
componentListDone(h, status, listed) ==
    /\ checks[h].pc = "list"
    /\ LET c == ended(checks[h], status)
       IN  IF status # "ok" THEN settle(h, c, "component list failed")
           ELSE IF listed THEN settle(h, c, "ok")
           ELSE continue(h, [exec(c, "component add rls-preview", c.toolchain)
                                EXCEPT !.pc = "addRls"])

\* the notification of a missing rls, then `throw e`
rlsNotFound(h, c) == settle(h, addError(c, "rls"), "add rls-preview failed")

\* `rustup component add rls-preview` ends
addRlsPreviewDone(h, status) ==
    /\ checks[h].pc = "addRls"
    /\ LET c == ended(checks[h], status)
       IN  IF addSucceeded(status)
              THEN continue(h, [exec(c, "component add rust-src", c.toolchain)
                                   EXCEPT !.pc = "addSrc"])
           ELSE IF c.toolchain = ""
              THEN continue(h, [exec(c, "override list", "")
                                   EXCEPT !.pc = "overrides"])
           ELSE IF startsWithNightly(c.named)
              THEN continue(h, [c EXCEPT !.pc = "suggest"])
           ELSE rlsNotFound(h, c)

\* `await rustupOverrides()` ends, in the handler of a failed rls-preview
overrideListDone(h, status, list) ==
    /\ checks[h].pc = "overrides"
    /\ LET c == ended(checks[h], status)
           found == {i \in 1..Len(list) : startsWith(c.cwd, list[i].path)}
       IN  IF status # "ok" THEN settle(h, c, "override list failed")
           ELSE IF list # <<>> /\ c.cwd = NoCwd
              THEN settle(h, c, "TypeError")    \* undefined.startsWith
           ELSE LET c2 == IF found = {} THEN c
                          ELSE [c EXCEPT
                                  !.named = list[CHOOSE i \in found :
                                               \A j \in found : i <= j].toolchain,
                                  !.usingOverride = TRUE]
                IN  IF startsWithNightly(c2.named)
                       THEN continue(h, [c2 EXCEPT !.pc = "suggest"])
                       ELSE rlsNotFound(h, c2)

\* `await suggestChannelOrDated('nightly').catch(logErr)` ends; whatever it
\* suggests only adds a button to the notification
suggestDone(h) ==
    /\ checks[h].pc = "suggest"
    /\ rlsNotFound(h, checks[h])

\* `rustup component add rust-src` ends
addRustSrcDone(h, status) ==
    /\ checks[h].pc = "addSrc"
    /\ LET c == ended(checks[h], status)
       IN  IF addSucceeded(status)
              THEN continue(h, [exec(c, "component add rust-analysis", c.toolchain)
                                   EXCEPT !.pc = "addAnalysis"])
              ELSE settle(h, addError(c, "rust-src/rust-analysis"),
                          "add rust-src failed")

\* `rustup component add rust-analysis` ends
addRustAnalysisDone(h, status) ==
    /\ checks[h].pc = "addAnalysis"
    /\ LET c == ended(checks[h], status)
       IN  IF addSucceeded(status)
              THEN settle(h, c, "ok")
              ELSE settle(h, addError(c, "rust-src/rust-analysis"),
                          "add rust-analysis failed")

ExecStatus == {"ok", "failed"}

NextCheck ==
    \/ \E t \in Toolchains : setRlsToolchain(t)
    \/ \E cwd \in Cwds : checkRls(cwd)
    \/ \E h \in 1..Len(checks), ok \in BOOLEAN : hasRustupDone(h, ok)
    \/ \E h \in 1..Len(checks), ok \in BOOLEAN : hasRlsDone(h, ok)
    \/ \E h \in 1..Len(checks), st \in ExecStatus, listed \in BOOLEAN :
          componentListDone(h, st, listed)
    \/ \E h \in 1..Len(checks), st \in ExecStatus : addRlsPreviewDone(h, st)
    \/ \E h \in 1..Len(checks), st \in ExecStatus, list \in OverrideLists :
          overrideListDone(h, st, list)
    \/ \E h \in 1..Len(checks) : suggestDone(h)
    \/ \E h \in 1..Len(checks), st \in ExecStatus : addRustSrcDone(h, st)
    \/ \E h \in 1..Len(checks), st \in ExecStatus : addRustAnalysisDone(h, st)

InitSpecCheck == InitCheck /\ IdleExceptCheck

SpecCheck == InitSpecCheck /\ [][NextCheck]_vars

(***************************************************************************)
(* Claims about the component check, checked under SpecCheck.              *)
(***************************************************************************)
inFlight == {h \in 1..Len(checks) : checks[h].pc # "settled"}

commandsOf(c, cmd) == {k \in 1..Len(c.cmds) : c.cmds[k].cmd = cmd}

\* C2: calls of checkRls made from the moment no check is in flight until
\* the check the first of them starts has settled issue one command
\* sequence (one `rustup component list`, each `rustup component add` at
\* most once), at most one check runs at any time, and these callers all
\* settle with the outcome of that check.
C2_SingleFlight ==
    /\ Cardinality(inFlight) <= 1
    /\ \A h \in inFlight : checkingRls = h
    /\ checkingRls # 0 => checkingRls \in inFlight
    /\ \A i, j \in 1..Len(calls) :
          calls[i].epoch = calls[j].epoch =>
             /\ calls[i].check = calls[j].check
             /\ calls[i].outcome = calls[j].outcome
    /\ \A i \in 1..Len(calls) :
          /\ calls[i].check \in 1..Len(checks)
          /\ calls[i].outcome = checks[calls[i].check].outcome
          /\ calls[i].outcome # "pending" <=> calls[i].check \notin inFlight
    /\ \A h \in 1..Len(checks) :
          \A cmd \in {"component list", "component add rls-preview",
                      "component add rust-src", "component add rust-analysis"} :
             Cardinality(commandsOf(checks[h], cmd)) <= 1

\* three calls shared one check, whose installation failed
C2_Witness ==
    /\ Len(calls) = 3
    /\ \A i \in 1..3 : calls[i].check = 1 /\ calls[i].outcome = "add rust-src failed"
    /\ Cardinality(commandsOf(checks[1], "component list")) = 1
    /\ checkingRls = 0

\* C36: the outcome a caller of checkRls receives is that of a check made
\* for the toolchain configured, and in the directory passed, at the time
\* of the call: a call made with another configured toolchain or another
\* directory while a check is in flight is not given the check in flight.
C36_OutcomeOfOwnCheck ==
    [][\A cwd \in Cwds :
          (Len(calls') = Len(calls) + 1 /\ checkRls(cwd)) =>
             LET own == checks'[calls'[Len(calls')].check]
             IN  /\ own.toolchain = rlsToolchain
                 /\ own.cwd = cwd]_vars

\* C17: once a check has settled, with success or with failure, the handle
\* _checkingRls is cleared before any later call of checkRls: every call
\* gets a check that had not settled when the call was made, so never the
\* settled result of an earlier check.
C17_FreshCheckAfterSettle ==
    /\ checkingRls # 0 => checks[checkingRls].pc # "settled"
    /\ settled = Cardinality({h \in 1..Len(checks) : checks[h].pc = "settled"})
    /\ \A h \in 1..Len(checks) : checks[h].pc = "settled" <=> h <= settled
    /\ \A i \in 1..Len(calls) : calls[i].check > calls[i].epoch

\* a call made after a check had failed got a check of its own, which
\* succeeded
C17_Witness ==
    /\ Len(calls) = 2
    /\ calls[1].check = 1 /\ calls[1].outcome = "component list failed"
    /\ calls[2].check = 2 /\ calls[2].epoch = 1 /\ calls[2].outcome = "ok"
    /\ checkingRls = 0

isAdd(e) == e.cmd \in {"component add rls-preview", "component add rust-src",
                       "component add rust-analysis"}

InstallOrder == <<"component add rls-preview", "component add rust-src",
                  "component add rust-analysis">>

\* what the check rejects with when the k-th install command fails
InstallFailure == <<"add rls-preview failed", "add rust-src failed",
                    "add rust-analysis failed">>

\* C9: when the component list shows a component missing, the install
\* commands are issued for the toolchain configured when checkRls was
\* called, in the order rls-preview, rust-src, rust-analysis, each only
\* after the one before succeeded; if one fails no later install command
\* is issued, exactly one error notification naming the toolchain is shown
\* (the configured name, or the default toolchain or its rustup override
\* when the setting is blank), and that failure reaches the callers of
\* checkRls.
C9_InstallChain ==
    \A h \in 1..Len(checks) :
       LET c == checks[h]
           adds == SelectSeq(c.cmds, isAdd)
           first == CHOOSE k \in 1..Len(c.cmds) :
                       isAdd(c.cmds[k]) /\ \A j \in 1..(k - 1) : ~isAdd(c.cmds[j])
           failed == adds # <<>> /\ adds[Len(adds)].status = "failed"
       IN  /\ Len(adds) <= 3
           /\ \A k \in 1..Len(adds) :
                 /\ adds[k].cmd = InstallOrder[k]
                 /\ adds[k].toolchain = c.toolchain
                 /\ k < Len(adds) => adds[k].status = "ok"
           /\ adds # <<>> =>
                 /\ first > 1
                 /\ c.cmds[first - 1].cmd = "component list"
                 /\ c.cmds[first - 1].status = "ok"
           /\ Len(c.notes) <= 1
           /\ c.notes # <<>> => failed
           /\ (failed /\ c.pc = "settled") =>
                 /\ Len(c.notes) = 1
                 /\ c.toolchain # "" => c.notes[1].names = c.toolchain
                 /\ c.outcome = InstallFailure[Len(adds)]
                 /\ \A i \in 1..Len(calls) :
                       calls[i].check = h => calls[i].outcome = c.outcome

(***************************************************************************)
(* Orchestrator: lib/index.js, RustLanguageClient.                         *)
(*                                                                         *)
(* The base class (atom-languageclient) calls startServerProcess for the   *)
(* project path of an open editor when that path has no server starting or *)
(* active, calls postInitialization once the spawned server has answered   *)
(* `initialize`, and on restartAllServers stops every active server (the   *)
(* process is killed; its 'exit' event comes later) before it starts the   *)
(* servers again.                                                          *)
(*                                                                         *)
(* Paths and the ignore setting are strings, written as tuples of          *)
(* one-character strings.                                                  *)
(***************************************************************************)
Alphabet == {"a", " ", "/", ","}

\* the strings of at most n characters
Strings(n) == UNION {[1..k -> Alphabet] : k \in 0..n}

ProjectPaths == {<<"a">>, <<"a", "/">>, <<" ", "a">>, <<"/">>}

isWhiteSpace(ch) == ch \in {" ", "\t", "\n", "\r"}

isSlash(ch) == ch \in {"/", "\\"}

RECURSIVE trimStart(_)
trimStart(str) ==
    IF str # <<>> /\ isWhiteSpace(Head(str)) THEN trimStart(Tail(str)) ELSE str

RECURSIVE trimEnd(_)
trimEnd(str) ==
    IF str # <<>> /\ isWhiteSpace(str[Len(str)])
       THEN trimEnd(SubSeq(str, 1, Len(str) - 1))
       ELSE str

\* String.prototype.trim
trim(str) == trimEnd(trimStart(str))

\* str.replace(/[/\\]*$/, ''): the trailing run of slashes is removed
RECURSIVE stripTrailingSlashes(_)
stripTrailingSlashes(str) ==
    IF str # <<>> /\ isSlash(str[Len(str)])
       THEN stripTrailingSlashes(SubSeq(str, 1, Len(str) - 1))
       ELSE str

\* str.split(sep), sep one character
RECURSIVE split(_, _)
split(str, sep) ==
    IF \A i \in 1..Len(str) : str[i] # sep THEN <<str>>
    ELSE LET i == CHOOSE i \in 1..Len(str) :
                     str[i] = sep /\ \A j \in 1..(i - 1) : str[j] # sep
         IN  <<SubSeq(str, 1, i - 1)>> \o split(SubSeq(str, i + 1, Len(str)), sep)

\* mutant: the path is not trimmed
untrimmed(path) == stripTrailingSlashes(path)

\* path.trim().replace(/[/\\]*$/, '')
trimmedAndStripped(path) == stripTrailingSlashes(trim(path))

\* the test of shouldIgnoreProjectPath on the value ignoredPaths of the
\* setting; an empty setting is falsy
ignoredBy(ignoredPaths, projectPath) ==
    /\ ignoredPaths # <<>>
    /\ LET paths == split(ignoredPaths, ",")
       IN  \E i \in 1..Len(paths) :
              trimmedAndStripped(paths[i]) = trimmedAndStripped(projectPath)

\* shouldIgnoreProjectPath(projectPath)
shouldIgnoreProjectPath(projectPath) ==
    ignoredBy(ignoredProjectPaths, projectPath)

InitOrch ==
    /\ ignoredProjectPaths \in Strings(MaxIgnoreLen)
    /\ rlsCommandOverride \in BOOLEAN
    /\ roots \in {{r} : r \in ProjectPaths}
    /\ NewOrchState

\* the turn op, about path, did effects; only what a call of
\* startServerProcess does before it first awaits is kept
step(op, path, effects) ==
    IF op = "startServerProcess"
       THEN [op |-> op, path |-> path, effects |-> effects]
       ELSE NoStep

\* the base class has a server starting or active for the path
startingOrActive(path) ==
    \/ starting[path] # "none"
    \/ \E s \in servers : s.path = path /\ ~s.stopped

\* mutant: the notice is added by every call
shouldWarnAlways(warned) == TRUE

\* `if (!this._warnedAboutRlsCommandOverride)`
shouldWarn(warned) == ~warned

\* the packages of the conflict list the model keeps, in the list's order
CONFLICTING_PACKAGES == <<"tokamak", "racer">>

\* the `_src` option of the warning about pkg
conflictSrc(pkg) == <<"ide-rust-conflict-", pkg>>

\* mutant: no warning is ever found in the list
alreadyNotifyingNever(notes, pkg) == FALSE

\* alreadyNotifying(pkg), notes being atom.notifications.getNotifications()
alreadyNotifying(notes, pkg) ==
    \E i \in 1..Len(notes) : notes[i].src = conflictSrc(pkg)

\* showConflictingPackageWarnings(): the notification list once the loop
\* has gone through pkgs, active being the packages isPackageActive accepts
RECURSIVE showConflictingPackageWarnings(_, _, _)
showConflictingPackageWarnings(notes, pkgs, active) ==
    IF pkgs = <<>> THEN notes
    ELSE showConflictingPackageWarnings(
            IF Head(pkgs) \in active /\ ~alreadyNotifying(notes, Head(pkgs))
               THEN Append(notes, [src |-> conflictSrc(Head(pkgs)),
                                   dismissed |-> FALSE])
               ELSE notes,
            Tail(pkgs), active)

\* startServerProcess from the conflict check to its next await;
\* periodic is the value _periodicUpdateChecking has by then
fromConflictCheck(path, op, periodic, effects) ==
    /\ flags' = [periodicUpdateChecking |-> periodic,
                 conflictingPackageChecking |-> TRUE,
                 warnedAboutRlsCommandOverride |->
                     flags.warnedAboutRlsCommandOverride \/ rlsCommandOverride]
    /\ notices' = IF rlsCommandOverride
                      /\ shouldWarn(flags.warnedAboutRlsCommandOverride)
                     THEN notices + 1 ELSE notices
    /\ IF flags.conflictingPackageChecking
          THEN UNCHANGED <<notifications, activationListeners>>
          ELSE /\ notifications' =
                     showConflictingPackageWarnings(notifications,
                                                    CONFLICTING_PACKAGES,
                                                    activePackages)
               /\ activationListeners' = activationListeners + 1
    /\ starting' = [starting EXCEPT ![path] =
                       IF rlsCommandOverride THEN "overrideEnv"
                                             ELSE "checkToolchain"]
    /\ lastStep' = step(op, path,
          effects
          \cup (IF flags.conflictingPackageChecking THEN {}
                ELSE {"showConflictingPackageWarnings"})
          \cup (IF rlsCommandOverride
                      /\ shouldWarn(flags.warnedAboutRlsCommandOverride)
                   THEN {"addInfo"} ELSE {})
          \cup (IF rlsCommandOverride THEN {"rustc --print sysroot"}
                                      ELSE {"rustc --version"}))
    /\ UNCHANGED <<servers, projects>>

\* startServerProcess(projectPath), up to its first await
startServerProcess(projectPath) ==
    /\ ~deactivated
    /\ projectPath \in roots
    /\ ~startingOrActive(projectPath)
    /\ IF shouldIgnoreProjectPath(projectPath)
          THEN /\ lastStep' = step("startServerProcess", projectPath, {})
               /\ UNCHANGED <<flags, starting, servers, projects, notices,
                              notifications, activationListeners>>
          ELSE IF ~flags.periodicUpdateChecking
             THEN /\ starting' = [starting EXCEPT ![projectPath] = "hasRustup"]
                  /\ lastStep' = step("startServerProcess", projectPath,
                                      {"rustup -V"})
                  /\ UNCHANGED <<flags, servers, projects, notices,
                                 notifications, activationListeners>>
             ELSE fromConflictCheck(projectPath, "startServerProcess", TRUE, {})
    /\ UNCHANGED <<ignoredProjectPaths, rlsCommandOverride, roots,
                   activePackages>>
    /\ lastResult' = NoResult
    /\ UNCHANGED trail
    /\ UNCHANGED <<periodicVars, exceptOrch>>

\* a periodicUpdate closure right after startServerProcess has called it:
\* its update check is awaited, its periodicUpdateTimeoutId is undefined (0)
NewChain == [pc |-> "awaiting", periodicUpdateTimeoutId |-> 0]

\* `await hasCommand("rustup")` of startServerProcess ends; when rustup is
\* there a periodicUpdate closure is made, registered for disposal and called
hasCommandDone(path, ok) ==
    /\ path \in roots
    /\ starting[path] = "hasRustup"
    /\ fromConflictCheck(path, "hasCommandDone",
                         flags.periodicUpdateChecking \/ ok,
                         IF ok THEN {"periodicUpdate"} ELSE {})
    /\ IF ok
          THEN /\ chains' = Append(chains, NewChain)
               /\ checkedAfterDeactivate' =
                     (checkedAfterDeactivate \/ deactivated)
          ELSE UNCHANGED <<chains, checkedAfterDeactivate>>
    /\ UNCHANGED <<timers, lastTimer, timerFires, deactivated>>
    /\ UNCHANGED <<ignoredProjectPaths, rlsCommandOverride, roots,
                   activePackages>>
    /\ lastResult' = NoResult
    /\ UNCHANGED trail
    /\ UNCHANGED exceptOrch

\* mutant: the error is rethrown as it is
rethrown(e) == <<e>>

\* new Error("failed to start server: " + e), as prefix and cause
failedToStart(e) == <<"failed to start server: ", e>>

\* the call for path rejects with error
rejects(path, error) == [path |-> path, state |-> "rejected", value |-> error]

\* mutant: the server is spawned right after the toolchain query
afterCheckToolchainSpawn == "serverEnv"

\* what follows `await this._checkToolchain(projectPath)` in the try block
afterCheckToolchain == "checkRls"

\* `await this._checkToolchain(projectPath)` ends
checkToolchainDone(path, ok) ==
    /\ path \in roots
    /\ starting[path] = "checkToolchain"
    /\ IF ok
          THEN /\ starting' = [starting EXCEPT ![path] = afterCheckToolchain]
               /\ trail' = [trail EXCEPT ![path] = Append(@, "rustc --version")]
               /\ lastResult' = NoResult
               /\ lastStep' = step("checkToolchainDone", path,
                                   {"clearIdeRustInfos", "checkRls"})
          ELSE /\ starting' = [starting EXCEPT ![path] = "none"]
               /\ trail' = [trail EXCEPT ![path] = <<>>]
               /\ lastResult' =
                     rejects(path, failedToStart("rustc --version failed"))
               /\ lastStep' = step("checkToolchainDone", path,
                                   {"_handleMissingToolchain", "throw"})
    /\ UNCHANGED <<flags, servers, projects, notices>>
    /\ UNCHANGED <<ignoredProjectPaths, rlsCommandOverride, roots,
                   conflictVars>>
    /\ UNCHANGED <<periodicVars, exceptOrch>>

\* `await checkRls(this.busySignalService, projectPath)` ends
checkRlsDone(path, ok) ==
    /\ path \in roots
    /\ starting[path] = "checkRls"
    /\ IF ok
          THEN /\ starting' = [starting EXCEPT ![path] = "serverEnv"]
               /\ trail' = [trail EXCEPT ![path] = Append(@, "checkRls")]
               /\ lastResult' = NoResult
               /\ lastStep' = step("checkRlsDone", path,
                                   {"rustc --print sysroot"})
          ELSE /\ starting' = [starting EXCEPT ![path] = "none"]
               /\ trail' = [trail EXCEPT ![path] = <<>>]
               /\ lastResult' = rejects(path, failedToStart("checkRls failed"))
               /\ lastStep' = step("checkRlsDone", path, {"throw"})
    /\ UNCHANGED <<flags, servers, projects, notices>>
    /\ UNCHANGED <<ignoredProjectPaths, rlsCommandOverride, roots,
                   conflictVars>>
    /\ UNCHANGED <<periodicVars, exceptOrch>>

\* a process id no running server has
freePid == CHOOSE n \in 1..(Cardinality(servers) + 1) :
              /\ \A s \in servers : s.id # n
              /\ \A m \in 1..(n - 1) : \E s \in servers : s.id = m

\* the command cp.spawn is given: the override, `rustup run <toolchain>
\* rls` or, with a blank toolchain setting, `rls`
spawnCommand(pc) ==
    IF pc = "overrideEnv" THEN "override"
    ELSE IF rlsToolchain # "" THEN "rustup run rls"
    ELSE "rls"

\* `await serverEnv(...)` ends: cp.spawn, and the process is returned
serverEnvDone(path) ==
    /\ path \in roots
    /\ starting[path] \in {"serverEnv", "overrideEnv"}
    /\ starting' = [starting EXCEPT ![path] = "none"]
    /\ servers' = servers \cup {[id |-> freePid, path |-> path,
                                 phase |-> "spawned", stopped |-> FALSE,
                                 command |-> spawnCommand(starting[path]),
                                 cwd |-> path, after |-> trail[path]]}
    /\ trail' = [trail EXCEPT ![path] = <<>>]
    /\ lastResult' = [path |-> path, state |-> "returned", value |-> freePid]
    /\ lastStep' = step("serverEnvDone", path, {"spawn"})
    /\ UNCHANGED <<flags, projects, notices>>
    /\ UNCHANGED <<ignoredProjectPaths, rlsCommandOverride, roots,
                   conflictVars>>
    /\ UNCHANGED <<periodicVars, exceptOrch>>

\* mutant: the assignment adds an entry and leaves the old one
assignKeepingOld(map, key, value) ==
    map \cup {[path |-> key, project |-> value]}

\* map[key] = value
assign(map, key, value) ==
    {e \in map : e.path # key} \cup {[path |-> key, project |-> value]}

\* delete map[key]
delete(map, key) == {e \in map : e.path # key}

\* postInitialization(server): the project made for the server is named
\* after the server's process
postInitialization(s) ==
    /\ s \in servers
    /\ s.phase = "spawned"
    /\ servers' = (servers \ {s}) \cup {[s EXCEPT !.phase = "initialised"]}
    /\ projects' = assign(projects, s.path, s.id)
    /\ lastStep' = step("postInitialization", s.path,
                        {"sendRlsTomlConfig", "_refreshActiveOverrides"})
    /\ UNCHANGED <<flags, starting>>
    /\ UNCHANGED <<ignoredProjectPaths, rlsCommandOverride, roots,
                   conflictVars>>
    /\ lastResult' = NoResult
    /\ UNCHANGED <<trail, notices>>
    /\ UNCHANGED <<periodicVars, exceptOrch>>

\* the process of s exits: the handler postInitialization registered, if
\* it did, deletes the entry of the path
serverProcessExit(s) ==
    /\ s \in servers
    /\ servers' = servers \ {s}
    /\ IF s.phase = "initialised"
          THEN /\ projects' = delete(projects, s.path)
               /\ lastStep' = step("serverProcessExit", s.path,
                                   {"_refreshActiveOverrides"})
          ELSE /\ lastStep' = step("serverProcessExit", s.path, {})
               /\ UNCHANGED projects
    /\ UNCHANGED <<flags, starting>>
    /\ UNCHANGED <<ignoredProjectPaths, rlsCommandOverride, roots,
                   conflictVars>>
    /\ lastResult' = NoResult
    /\ UNCHANGED <<trail, notices>>
    /\ UNCHANGED <<periodicVars, exceptOrch>>

\* this.restartAllServers(), up to the servers being stopped
restartAllServers ==
    /\ Cardinality({s \in servers : s.stopped \/ s.phase = "initialised"})
          <= MaxStopping
    /\ servers' = {IF s.phase = "initialised" THEN [s EXCEPT !.stopped = TRUE]
                   ELSE s : s \in servers}
    /\ lastStep' = step("restartAllServers", <<>>,
                        {IF s.phase = "initialised" /\ ~s.stopped
                            THEN "kill" ELSE "none" : s \in servers} \ {"none"})
    /\ UNCHANGED <<flags, starting, projects>>
    /\ UNCHANGED <<ignoredProjectPaths, rlsCommandOverride, roots,
                   conflictVars>>
    /\ lastResult' = NoResult
    /\ UNCHANGED <<trail, notices>>
    /\ UNCHANGED <<periodicVars, exceptOrch>>

\* clearTimeout(id): an id that is undefined, fired or cleared has no effect
clearTimeout(pending, id) == pending \ {id}

\* the timers left once the Disposable of every chain has run
RECURSIVE disposeChains(_, _)
disposeChains(pending, cs) ==
    IF cs = <<>> THEN pending
    ELSE disposeChains(clearTimeout(pending, Head(cs).periodicUpdateTimeoutId),
                       Tail(cs))

\* `await this._promptToUpdateToolchain().catch(logErr)` of chain c ends:
\* the next run is scheduled
promptToUpdateToolchainDone(c) ==
    /\ c \in 1..Len(chains)
    /\ chains[c].pc = "awaiting"
    /\ lastTimer' = lastTimer + 1
    /\ timers' = timers \cup {lastTimer + 1}
    /\ chains' = [chains EXCEPT ![c] = [pc |-> "sleeping",
                                        periodicUpdateTimeoutId |-> lastTimer + 1]]
    /\ lastStep' = step("promptToUpdateToolchainDone", <<>>, {"setTimeout"})
    /\ UNCHANGED <<timerFires, deactivated, checkedAfterDeactivate>>
    /\ UNCHANGED <<flags, starting, servers, projects>>
    /\ UNCHANGED <<ignoredProjectPaths, rlsCommandOverride, roots,
                   conflictVars>>
    /\ lastResult' = NoResult
    /\ UNCHANGED <<trail, notices>>
    /\ UNCHANGED exceptOrch

\* the timer of chain c fires: periodicUpdate() starts the next update check
periodicUpdate(c) ==
    /\ c \in 1..Len(chains)
    /\ chains[c].pc = "sleeping"
    /\ chains[c].periodicUpdateTimeoutId \in timers
    /\ timerFires < MaxTimerFires
    /\ timerFires' = timerFires + 1
    /\ timers' = timers \ {chains[c].periodicUpdateTimeoutId}
    /\ chains' = [chains EXCEPT ![c].pc = "awaiting"]
    /\ checkedAfterDeactivate' = (checkedAfterDeactivate \/ deactivated)
    /\ lastStep' = step("periodicUpdate", <<>>, {"_promptToUpdateToolchain"})
    /\ UNCHANGED <<lastTimer, deactivated>>
    /\ UNCHANGED <<flags, starting, servers, projects>>
    /\ UNCHANGED <<ignoredProjectPaths, rlsCommandOverride, roots,
                   conflictVars>>
    /\ lastResult' = NoResult
    /\ UNCHANGED <<trail, notices>>
    /\ UNCHANGED exceptOrch

\* deactivate(): this.disposables.dispose() runs the Disposable of every
\* chain, then the base class stops the active servers
deactivate ==
    /\ ~deactivated
    /\ deactivated' = TRUE
    /\ timers' = disposeChains(timers, chains)
    /\ flags' = [flags EXCEPT !.periodicUpdateChecking = FALSE]
    /\ servers' = {IF s.phase = "initialised" THEN [s EXCEPT !.stopped = TRUE]
                   ELSE s : s \in servers}
    /\ lastStep' = step("deactivate", <<>>, {"dispose"})
    /\ UNCHANGED <<chains, lastTimer, timerFires, checkedAfterDeactivate>>
    /\ UNCHANGED <<starting, projects>>
    /\ UNCHANGED <<ignoredProjectPaths, rlsCommandOverride, roots,
                   activePackages>>
    /\ activationListeners' = 0
    /\ UNCHANGED notifications
    /\ lastResult' = NoResult
    /\ UNCHANGED <<trail, notices>>
    /\ UNCHANGED exceptOrch

\* the package pkg is activated: the listeners registered with
\* onDidActivatePackage run showConflictingPackageWarnings
activatePackage(pkg) ==
    /\ pkg \notin activePackages
    /\ activePackages' = activePackages \cup {pkg}
    /\ notifications' =
          IF activationListeners = 0 THEN notifications
          ELSE showConflictingPackageWarnings(notifications,
                                              CONFLICTING_PACKAGES,
                                              activePackages')
    /\ lastStep' = step("activatePackage", <<>>, {})
    /\ lastResult' = NoResult
    /\ UNCHANGED <<flags, starting, servers, projects, trail, notices>>
    /\ UNCHANGED <<ignoredProjectPaths, rlsCommandOverride, roots,
                   activationListeners>>
    /\ UNCHANGED <<periodicVars, exceptOrch>>

\* the `Disable pkg` button of warning n is clicked:
\* atom.packages.disablePackage(pkg), then note.dismiss()
disableClicked(n) ==
    /\ n \in 1..Len(notifications)
    /\ ~notifications[n].dismissed
    /\ activePackages' = activePackages \ {notifications[n].src[2]}
    /\ notifications' = [notifications EXCEPT ![n].dismissed = TRUE]
    /\ lastStep' = step("disableClicked", <<>>, {})
    /\ lastResult' = NoResult
    /\ UNCHANGED <<flags, starting, servers, projects, trail, notices>>
    /\ UNCHANGED <<ignoredProjectPaths, rlsCommandOverride, roots,
                   activationListeners>>
    /\ UNCHANGED <<periodicVars, exceptOrch>>

NextOrch ==
    \/ \E path \in ProjectPaths : startServerProcess(path)
    \/ \E path \in ProjectPaths, ok \in BOOLEAN : hasCommandDone(path, ok)
    \/ \E path \in ProjectPaths, ok \in BOOLEAN : checkToolchainDone(path, ok)
    \/ \E path \in ProjectPaths, ok \in BOOLEAN : checkRlsDone(path, ok)
    \/ \E path \in ProjectPaths : serverEnvDone(path)
    \/ \E s \in servers : postInitialization(s)
    \/ \E s \in servers : serverProcessExit(s)
    \/ restartAllServers

InitSpecOrch == InitOrch /\ IdleExceptOrch

SpecOrch == InitSpecOrch /\ [][NextOrch]_vars

\* the project paths of the multi-crate remediation, one with a comma in
\* a directory name
IgnorePaths == {<<"a">>, <<"a", ",">>}

\* [ignoredPaths, projectPath].join(", "); an unset setting is joined as
\* the empty string, like an empty one
joinIgnored(ignoredPaths, projectPath) ==
    ignoredPaths \o <<",", " ">> \o projectPath

\* the `Ignore project` button of the multi-crate notification of the
\* project is clicked; the notification was added for an error of the
\* project's server
ignoreProjectClicked(projectPath) ==
    /\ projectPath \in roots
    /\ \E s \in servers : s.path = projectPath
    /\ Len(ignoredProjectPaths) <= MaxIgnoreLen
    /\ ignoredProjectPaths' = joinIgnored(ignoredProjectPaths, projectPath)
    /\ lastStep' = step("ignoreProjectClicked", projectPath, {})
    /\ lastResult' = NoResult
    /\ UNCHANGED <<flags, starting, servers, projects, trail, notices>>
    /\ UNCHANGED <<rlsCommandOverride, roots, conflictVars>>
    /\ UNCHANGED <<periodicVars, exceptOrch>>

NextIgnore ==
    \/ \E path \in IgnorePaths : startServerProcess(path)
    \/ \E path \in IgnorePaths, ok \in BOOLEAN : hasCommandDone(path, ok)
    \/ \E path \in IgnorePaths, ok \in BOOLEAN : checkToolchainDone(path, ok)
    \/ \E path \in IgnorePaths, ok \in BOOLEAN : checkRlsDone(path, ok)
    \/ \E path \in IgnorePaths : serverEnvDone(path)
    \/ \E s \in servers : postInitialization(s)
    \/ \E s \in servers : serverProcessExit(s)
    \/ restartAllServers
    \/ \E path \in IgnorePaths : ignoreProjectClicked(path)

\* one project open, the ignore setting any short string
InitIgnore ==
    /\ ignoredProjectPaths \in Strings(MaxIgnoreLen)
    /\ rlsCommandOverride = FALSE
    /\ roots \in {{r} : r \in IgnorePaths}
    /\ NewOrchState

InitSpecIgnore == InitIgnore /\ IdleExceptOrch

SpecIgnore == InitSpecIgnore /\ [][NextIgnore]_vars

\* C31: after a click on `Ignore project` for the path P, whatever the
\* ignore setting was, shouldIgnoreProjectPath(P) is true; a path that is
\* ignored stays ignored; and no start begun while P is ignored goes past
\* the ignore check, so that no server is spawned for P.
C31_IgnoreRoundTrip ==
    /\ [][\A p \in roots :
             ignoredProjectPaths' = joinIgnored(ignoredProjectPaths, p) =>
                ignoredBy(ignoredProjectPaths', p)]_vars
    /\ [][\A p \in IgnorePaths \cup ProjectPaths :
             ignoredBy(ignoredProjectPaths, p) =>
                ignoredBy(ignoredProjectPaths', p)]_vars
    /\ [][\A p \in roots :
             (shouldIgnoreProjectPath(p) /\ starting[p] = "none") =>
                starting'[p] = "none"]_vars

\* two projects open, one of them possibly ignored
InitProjects ==
    /\ ignoredProjectPaths \in {<<>>, <<"/">>}
    /\ rlsCommandOverride \in BOOLEAN
    /\ roots = {<<"a">>, <<"/">>}
    /\ NewOrchState

InitSpecProjects == InitProjects /\ IdleExceptOrch

SpecProjects == InitSpecProjects /\ [][NextOrch]_vars

\* the periodic update checks of an orchestrator with two projects open,
\* up to and after its deactivation
NextPeriodic ==
    \/ \E path \in ProjectPaths : startServerProcess(path)
    \/ \E path \in ProjectPaths, ok \in BOOLEAN : hasCommandDone(path, ok)
    \/ \E path \in ProjectPaths, ok \in BOOLEAN : checkToolchainDone(path, ok)
    \/ \E c \in 1..Len(chains) : promptToUpdateToolchainDone(c)
    \/ \E c \in 1..Len(chains) : periodicUpdate(c)
    \/ deactivate

InitPeriodic ==
    /\ ignoredProjectPaths = <<>>
    /\ rlsCommandOverride = FALSE
    /\ roots = {<<"a">>, <<"/">>}
    /\ NewOrchState

InitSpecPeriodic == InitPeriodic /\ IdleExceptOrch

SpecPeriodic == InitSpecPeriodic /\ [][NextPeriodic]_vars

\* the timer chains that will run an update check again: an update check
\* of the chain is awaited, or its timer is pending
activeChains ==
    {c \in 1..Len(chains) :
        \/ chains[c].pc = "awaiting"
        \/ chains[c].periodicUpdateTimeoutId \in timers}

\* C32: at most one periodic update-check timer chain is active at any
\* time, however the concurrent startServerProcess calls interleave.
C32_AtMostOneChain == Cardinality(activeChains) <= 1

\* the sessions that are live: initialised, not stopped, process running
liveSessions == {s \in servers : s.phase = "initialised" /\ ~s.stopped}

\* C33: whenever a session for the path P is live, this.projects has an
\* entry for P and the entry is that session; the exit of an older process
\* for P does not remove the entry of the newer session.
C33_LiveSessionTracked ==
    \A s \in liveSessions : [path |-> s.path, project |-> s.id] \in projects

\* the conflict warnings of an orchestrator with two projects open, while
\* conflicting packages are activated and disabled
NextConflicts ==
    \/ \E path \in ProjectPaths : startServerProcess(path)
    \/ \E path \in ProjectPaths, ok \in BOOLEAN : hasCommandDone(path, ok)
    \/ \E path \in ProjectPaths, ok \in BOOLEAN : checkToolchainDone(path, ok)
    \/ \E i \in 1..Len(CONFLICTING_PACKAGES) :
          activatePackage(CONFLICTING_PACKAGES[i])
    \/ \E n \in 1..Len(notifications) : disableClicked(n)

InitConflicts ==
    /\ ignoredProjectPaths = <<>>
    /\ rlsCommandOverride = FALSE
    /\ roots = {<<"a">>, <<"/">>}
    /\ flags = [periodicUpdateChecking |-> FALSE,
                conflictingPackageChecking |-> FALSE,
                warnedAboutRlsCommandOverride |-> FALSE]
    /\ starting = [r \in roots |-> "none"]
    /\ servers = {}
    /\ projects = {}
    /\ lastStep = NoStep
    /\ trail = [r \in roots |-> <<>>]
    /\ lastResult = NoResult
    /\ notices = 0
    /\ activePackages \in SUBSET {CONFLICTING_PACKAGES[i] :
                                     i \in 1..Len(CONFLICTING_PACKAGES)}
    /\ notifications = <<>>
    /\ activationListeners = 0
    /\ chains = <<>>
    /\ timers = {}
    /\ lastTimer = 0
    /\ timerFires = 0
    /\ deactivated = FALSE
    /\ checkedAfterDeactivate = FALSE

InitSpecConflicts == InitConflicts /\ IdleExceptOrch

SpecConflicts == InitSpecConflicts /\ [][NextConflicts]_vars

tagged(pkg) == {n \in 1..Len(notifications) :
                  notifications[n].src = conflictSrc(pkg)}

\* C24: a conflict warning is added for a package only when the package is
\* active and the notification list holds no warning tagged for it, so the
\* list never holds two warnings for one package; the package-activation
\* listener is registered at most once.
C24_OneWarningPerPackage ==
    /\ [](\A i \in 1..Len(CONFLICTING_PACKAGES) :
             Cardinality(tagged(CONFLICTING_PACKAGES[i])) <= 1)
    /\ [](activationListeners <= 1)
    /\ [][\A n \in (1..Len(notifications')) \ (1..Len(notifications)) :
             \E i \in 1..Len(CONFLICTING_PACKAGES) :
                LET pkg == CONFLICTING_PACKAGES[i]
                IN  /\ notifications'[n].src = conflictSrc(pkg)
                    /\ pkg \in activePackages'
                    /\ tagged(pkg) = {}]_vars

\* a package activated after the first call got its warning from the
\* listener; disabled through the warning and activated again, it got no
\* second one
C24_Witness ==
    /\ Len(notifications) = 2
    /\ notifications[2].src = conflictSrc("tokamak")
    /\ notifications[2].dismissed
    /\ "tokamak" \in activePackages
    /\ activationListeners = 1

(***************************************************************************)
(* The server's standard output (logSuspiciousStdout).  The output is a    *)
(* string of pieces of text: the frame header prefix, the JSON-RPC marker, *)
(* a run of LongLine ordinary characters, and single characters.           *)
(***************************************************************************)
ContentLength == "Content-Length:"
JsonRpc == "\"jsonrpc\":\"2.0\""

\* the length from which a line is ignored
LongLine == 10000

StdoutPieces == {ContentLength, JsonRpc, "long", "x", " ", "\n"}

Outputs == UNION {[1..k -> StdoutPieces] : k \in 0..MaxOutput}

\* String.prototype.length of a string written as pieces
RECURSIVE length(_)
length(l) ==
    IF l = <<>> THEN 0
    ELSE (CASE Head(l) = "long" -> LongLine
            [] Head(l) = ContentLength -> 15
            [] Head(l) = JsonRpc -> 15
            [] OTHER -> 1) + length(Tail(l))

\* l.includes(piece)
includes(l, piece) == \E i \in 1..Len(l) : l[i] = piece

\* the filter of logSuspiciousStdout
suspicious(l) ==
    /\ trim(l) # <<>>
    /\ length(l) < LongLine
    /\ ~startsWith(l, <<ContentLength>>)
    /\ ~includes(l, JsonRpc)

\* the 'data' listener of logSuspiciousStdout gets the next n pieces of the
\* output as one chunk
stdoutData(n) ==
    /\ n \in 1..Len(stdout)
    /\ LET chunk == SubSeq(stdout, 1, n)
       IN  /\ logged' = logged \o SelectSeq(split(chunk, "\n"), suspicious)
           /\ delivered' = delivered \o chunk
    /\ stdout' = SubSeq(stdout, n + 1, Len(stdout))
    /\ UNCHANGED exceptStdout

NextStdout == \E n \in 1..MaxOutput : stdoutData(n)

InitStdout ==
    /\ stdout \in Outputs
    /\ delivered = <<>>
    /\ logged = <<>>

InitSpecStdout == InitStdout /\ IdleExceptStdout

SpecStdout == InitSpecStdout /\ [][NextStdout]_vars

\* a line that is neither a frame header nor a JSON-RPC payload nor blank
notProtocol(l) ==
    /\ trim(l) # <<>>
    /\ ~startsWith(l, <<ContentLength>>)
    /\ ~includes(l, JsonRpc)

\* C26: once the whole output has been delivered, the lines logged as
\* suspicious are exactly the lines of the output that are neither a
\* `Content-Length:` header nor a JSON-RPC payload nor blank, whatever their
\* length and however the output was cut into chunks.
C26_WarnsIffNotProtocol ==
    stdout = <<>> => logged = SelectSeq(split(delivered, "\n"), notProtocol)

(***************************************************************************)
(* The watcher of rls.toml: the onDidChangeFiles handler of activate().    *)
(* A path is a string of pieces: single characters and the file name       *)
(* rls.toml.  The roots "a" and "ab" are one a string prefix of the other, *)
(* as /a/foo and /a/foobar are.                                            *)
(***************************************************************************)
WatchedRoots == {<<"a">>, <<"a", "b">>, <<"c">>}

\* the paths a file-change event can carry
EventPaths ==
    {r \o <<"/">> \o f :
        r \in WatchedRoots \cup {<<"d">>},
        f \in {<<"rls.toml">>, <<"x">>, <<"s", "/", "rls.toml">>}}

\* the test of `find`: event.path.startsWith(key)
prefixOf(path, key) == startsWith(path, key)

\* Object.keys(this.projects).find(key => event.path.startsWith(key)), as
\* the list of the keys found: the first that matches, or none
find(keys, path) ==
    LET matching == {i \in 1..Len(keys) : prefixOf(path, keys[i])}
    IN  IF matching = {} THEN <<>>
        ELSE <<keys[CHOOSE i \in matching : \A j \in matching : i <= j]>>

\* postInitialization: this.projects[path] = project, for a new key
projectTracked(path) ==
    /\ \A i \in 1..Len(projectKeys) : projectKeys[i] # path
    /\ projectKeys' = Append(projectKeys, path)
    /\ resent' = <<>>
    /\ UNCHANGED exceptWatch

\* the server of project i exits: delete this.projects[path]
projectDeleted(i) ==
    /\ i \in 1..Len(projectKeys)
    /\ projectKeys' = RemoveAt(projectKeys, i)
    /\ resent' = <<>>
    /\ UNCHANGED exceptWatch

\* the onDidChangeFiles handler gets the batch events
onDidChangeFiles(events) ==
    /\ resent' =
          IF projectKeys = <<>> THEN <<>>
          ELSE [e \in 1..Len(events) |->
                  [path |-> events[e],
                   sessions |-> IF endsWith(events[e], <<"rls.toml">>)
                                   THEN find(projectKeys, events[e])
                                   ELSE <<>>]]
    /\ UNCHANGED projectKeys
    /\ UNCHANGED exceptWatch

NextWatch ==
    \/ \E path \in WatchedRoots : projectTracked(path)
    \/ \E i \in 1..Len(projectKeys) : projectDeleted(i)
    \/ \E events \in UNION {[1..n -> EventPaths] : n \in 1..MaxEvents} :
          onDidChangeFiles(events)

InitSpecWatch == IdleWatch /\ IdleExceptWatch

SpecWatch == InitSpecWatch /\ [][NextWatch]_vars

\* C28: for every file change whose path is <P>/rls.toml, P being the root
\* of a tracked session, the session of P re-sends its configuration and no
\* other session does, whatever the tracked roots are, a root that is a
\* string prefix of another included.
C28_OwnSessionResends ==
    \A e \in 1..Len(resent), k \in 1..Len(projectKeys) :
       resent[e].path = projectKeys[k] \o <<"/", "rls.toml">> =>
          resent[e].sessions = <<projectKeys[k]>>

(***************************************************************************)
(* Update checks and remedies of the orchestrator: _refreshActiveOverrides, *)
(* _promptToUpdateToolchain, _checkToolchain's remedies                     *)
(* _handleMissingToolchain and _handleMissingRustup, and the buttons of     *)
(* their notifications.                                                     *)
(*                                                                         *)
(* A flow is one call of an async function with the commands it has       *)
(* issued so far (steps), the command it waits for being the last.  The    *)
(* closures _promptToUpdateToolchain starts per toolchain are flows too.   *)
(* A call that ends by starting a closure or by calling                    *)
(* _handleMissingRustup has nothing left to do: what it started takes its  *)
(* place in the list.                                                      *)
(* The toolchain "nightly-d" stands for a dated nightly.                   *)
(***************************************************************************)
ToolchainOrder == <<"stable", "nightly", "nightly-d">>

\* the toolchains a directory override can name
OverrideToolchains == {"nightly"}

\* confToolchain.match(DATED_REGEX)
dated(toolchain) == toolchain = "nightly-d"

\* `dated ? dated[1] : confToolchain`
channelOf(toolchain) == IF dated(toolchain) THEN "nightly" ELSE toolchain

\* `configToolchain() || await rustupDefaultToolchain()`, the default
\* toolchain of rustup being stable
confToolchain(configured) == IF configured # "" THEN configured ELSE "stable"

\* an info or success notification with `_src: 'ide-rust'`; answer is what
\* the promise of atomPrompt has resolved with, for a prompt
ideRustNote(kind, toolchain, flow) ==
    [src |-> <<"ide-rust">>, dismissed |-> FALSE, kind |-> kind,
     toolchain |-> toolchain, flow |-> flow, answer |-> "pending"]

\* atom.notifications.addError(...), which has no `_src`
errorNote(flow) ==
    [src |-> <<>>, dismissed |-> FALSE, kind |-> "error", toolchain |-> "",
     flow |-> flow, answer |-> "none"]

\* note.dismiss(): the onDidDismiss listener of atomPrompt resolves the
\* promise with null, which has no effect on a promise already resolved
dismissNote(note) ==
    [note EXCEPT !.dismissed = TRUE,
                 !.answer = IF @ = "pending" THEN "null" ELSE @]

clearIdeRustInfos(notes) ==
    [n \in 1..Len(notes) |->
        IF notes[n].src = <<"ide-rust">> THEN dismissNote(notes[n])
        ELSE notes[n]]

\* atomPrompt(message, options, buttons): the notification list after it
atomPrompt(notes, kind, toolchain, flow) ==
    Append(clearIdeRustInfos(notes), ideRustNote(kind, toolchain, flow))

NewFlow(kind, toolchain, origin, at, steps) ==
    [kind |-> kind, toolchain |-> toolchain, origin |-> origin,
     ignore |-> {}, enabled |-> TRUE, at |-> at, note |-> 0,
     steps |-> steps, chain |-> <<>>, failed |-> ""]

\* mutant: the check runs whatever the setting is
updatesEnabledAlways(setting) == TRUE

\* `atom.config.get('ide-rust.checkForToolchainUpdates')`, as tested at the
\* head of _promptToUpdateToolchain
updatesEnabled(setting) == setting

\* _promptToUpdateToolchain({ ignore }) up to its first await, the setting
\* being as given: the flows after the call
promptToUpdateToolchainCall(fl, setting, ignore, origin) ==
    Append(fl,
       IF updatesEnabled(setting)
          THEN [NewFlow("updateCheck", "", origin, "hasCommand",
                        <<<<"rustup -V", "">>>>)
                  EXCEPT !.ignore = ignore, !.enabled = setting]
          ELSE [NewFlow("updateCheck", "", origin, "returned", <<>>)
                  EXCEPT !.ignore = ignore, !.enabled = setting])

\* _handleMissingRustup(), called as the last act of the flow f, up to its
\* await: the prompt is shown
handleMissingRustup(fl, f, notes) ==
    [flows |-> [fl EXCEPT ![f].kind = "missingRustup", ![f].at = "prompt",
                          ![f].note = Len(notes) + 1],
     notes |-> atomPrompt(notes, "missingRustup", "", f)]

\* mutant: the servers are restarted before the toolchain is verified
updateChainRestartFirst ==
    <<"rustup update", "restartAllServers", "_checkToolchain", "checkRls">>

\* the promise chain of the Update button
updateChain ==
    <<"rustup update", "_checkToolchain", "checkRls", "restartAllServers">>

\* the promise chains of the Install buttons
installChain(kind) ==
    <<IF kind = "missingRustup" THEN "installRustup"
      ELSE "rustup toolchain install",
      "_checkToolchain", "restartAllServers">>

\* mutant: any answer starts the install
clickedInstallAlways(answer) == TRUE

\* `clicked === 'Install'`
clickedInstall(answer) == answer = "Install"

\* the flows once the calls that waited for a prompt now answered have
\* gone on: to the install command, or to their end
resumed(fl, notes, configured) ==
    [i \in 1..Len(fl) |->
        LET f == fl[i]
        IN  IF /\ f.kind \in {"missingToolchain", "missingRustup"}
               /\ f.at = "prompt"
               /\ notes[f.note].answer # "pending"
               THEN IF clickedInstall(notes[f.note].answer)
                       THEN [f EXCEPT
                               !.at = "running",
                               !.steps = Append(@,
                                  <<Head(installChain(f.kind)),
                                    IF f.kind = "missingRustup" THEN ""
                                    ELSE configured>>),
                               !.chain = Tail(installChain(f.kind))]
                       ELSE [f EXCEPT !.at = "returned"]
               ELSE f]

promptFrame == UNCHANGED exceptPrompts

\* a periodic or initial update check: _promptToUpdateToolchain()
updateCheckDue ==
    /\ Len(flows) < MaxFlows
    /\ flows' = promptToUpdateToolchainCall(flows, checkForToolchainUpdates,
                                            {}, "check")
    /\ UNCHANGED <<checkForToolchainUpdates, activeOverrides, notifications,
                   rlsToolchain>>
    /\ promptFrame

\* the user switches "ide-rust.checkForToolchainUpdates" on; the
\* onDidChange handler starts a check
setCheckForToolchainUpdates(enabled) ==
    /\ enabled
    /\ ~checkForToolchainUpdates
    /\ Len(flows) < MaxFlows
    /\ checkForToolchainUpdates' = enabled
    /\ flows' = promptToUpdateToolchainCall(flows, enabled, {}, "check")
    /\ UNCHANGED <<activeOverrides, notifications, rlsToolchain>>
    /\ promptFrame

\* _refreshActiveOverrides(), from the answer of `rustup override list`:
\* overrides are the toolchains of the overrides of the tracked projects
refreshActiveOverrides(overrides) ==
    /\ Cardinality(overrides) > Cardinality(activeOverrides) =>
          Len(flows) < MaxFlows
    /\ activeOverrides' = overrides
    /\ flows' = IF Cardinality(overrides) > Cardinality(activeOverrides)
                   THEN promptToUpdateToolchainCall(
                           flows, checkForToolchainUpdates,
                           activeOverrides \cup {confToolchain(rlsToolchain)},
                           "refresh")
                   ELSE flows
    /\ UNCHANGED <<checkForToolchainUpdates, notifications, rlsToolchain>>
    /\ promptFrame

\* hasCommand("rustup") of the check f answers
hasCommandAnswer(f, ok) ==
    /\ f \in 1..Len(flows)
    /\ flows[f].at = "hasCommand"
    /\ IF ok
          THEN LET toolchains ==
                      (activeOverrides \cup {confToolchain(rlsToolchain)})
                         \ flows[f].ignore
                   order == SelectSeq(ToolchainOrder,
                                      LAMBDA t : t \in toolchains)
                   closure(t) ==
                      [flows[f] EXCEPT
                         !.kind = "toolchainCheck", !.toolchain = t,
                         !.at = "fetch",
                         !.steps = Append(@, <<"rustc --version", t>>)]
               IN  /\ Len(flows) + Len(order) - 1 <= MaxFlows
                   /\ flows' =
                         IF order = <<>>
                            THEN [flows EXCEPT ![f].at = "returned"]
                            ELSE [flows EXCEPT ![f] = closure(order[1])] \o
                                 [i \in 1..(Len(order) - 1) |->
                                     closure(order[i + 1])]
                   /\ UNCHANGED <<checkForToolchainUpdates, notifications>>
          ELSE LET got == handleMissingRustup(
                             [flows EXCEPT ![f].failed = "rustup -V"],
                             f, notifications)
               IN  /\ checkForToolchainUpdates' = FALSE
                   /\ notifications' = got.notes
                   /\ flows' = resumed(got.flows, got.notes, rlsToolchain)
    /\ UNCHANGED <<activeOverrides, rlsToolchain>>
    /\ promptFrame

\* the awaits of the closure f settle: `rustc --version` of its toolchain,
\* and when that succeeded fetchLatestDist(...).catch(() => false); the
\* update prompt is added when the value fetched is truthy
fetchLatestDistAnswer(f, got) ==
    /\ f \in 1..Len(flows)
    /\ flows[f].at = "fetch"
    /\ LET fetched == [flows[f] EXCEPT
                         !.steps = Append(@, <<"fetchLatestDist",
                                               channelOf(flows[f].toolchain)>>)]
       IN  IF got = "newVersion"
              THEN /\ notifications' =
                         Append(notifications,
                                ideRustNote("update",
                                            channelOf(flows[f].toolchain), f))
                   /\ flows' = [flows EXCEPT
                                  ![f] = [fetched EXCEPT
                                            !.at = "prompt",
                                            !.note = Len(notifications) + 1]]
              ELSE /\ flows' = [flows EXCEPT ![f] =
                         IF got = "noRustc"
                            THEN [@ EXCEPT !.at = "failed",
                                           !.failed = "rustc --version"]
                            ELSE [fetched EXCEPT !.at = "returned"]]
                   /\ UNCHANGED notifications
    /\ UNCHANGED <<checkForToolchainUpdates, activeOverrides, rlsToolchain>>
    /\ promptFrame

\* the Update (or Update & Switch) button of the prompt of f is clicked
updateClicked(f) ==
    /\ f \in 1..Len(flows)
    /\ flows[f].kind = "toolchainCheck"
    /\ flows[f].at = "prompt"
    /\ ~notifications[flows[f].note].dismissed
    /\ LET notes == clearIdeRustInfos(
                       [notifications EXCEPT ![flows[f].note].answer = "Update"])
       IN  /\ notifications' = notes
           /\ flows' = resumed(
                 [flows EXCEPT
                    ![f].at = "running",
                    ![f].steps = Append(@, <<Head(updateChain),
                                             channelOf(flows[f].toolchain)>>),
                    ![f].chain = Tail(updateChain)],
                 notes, rlsToolchain)
    /\ UNCHANGED <<checkForToolchainUpdates, activeOverrides, rlsToolchain>>
    /\ promptFrame

\* the command the chain of f waits for ends.  A successful update of a
\* dated toolchain sets "ide-rust.rlsToolchain" to the channel; a successful
\* _checkToolchain clears the prompts, a failed one calls
\* _handleMissingToolchain with the toolchain it read when it was called; a
\* successful restart adds its success note if a reason was given, and the
\* toolchain watcher then calls _promptToUpdateToolchain; the catch handler
\* of the chain reports the failure
stepDone(f, ok) ==
    /\ f \in 1..Len(flows)
    /\ flows[f].at = "running"
    /\ LET fl == flows[f]
           cur == fl.steps[Len(fl.steps)][1]
           configured ==
              IF ok /\ cur = "rustup update" /\ dated(fl.toolchain)
                 THEN channelOf(fl.toolchain) ELSE rlsToolchain
           cleared == IF ok /\ cur = "_checkToolchain"
                         THEN clearIdeRustInfos(notifications)
                         ELSE notifications
           notes ==
              IF ok
                 THEN IF cur = "restartAllServers" /\ fl.kind # "missingRustup"
                         THEN Append(cleared,
                                 [ideRustNote("success", fl.toolchain, f)
                                    EXCEPT !.answer = "none"])
                         ELSE cleared
              ELSE IF fl.kind = "toolchainCheck"
                 THEN Append(notifications, errorNote(f))
              ELSE IF fl.kind = "missingToolchain"
                 THEN Append(clearIdeRustInfos(notifications), errorNote(f))
              ELSE notifications
           moved ==
              IF ~ok THEN [fl EXCEPT !.at = "failed", !.failed = cur]
              ELSE IF fl.chain = <<>> THEN [fl EXCEPT !.at = "done"]
              ELSE [fl EXCEPT
                      !.steps = Append(@,
                         <<Head(fl.chain),
                           IF Head(fl.chain) = "_checkToolchain"
                              THEN configured ELSE "">>),
                      !.chain = Tail(@)]
           remedy == ~ok /\ cur = "_checkToolchain"
           check == /\ ok /\ cur = "restartAllServers"
                    /\ fl.kind = "toolchainSwitch"
           next == IF remedy
                      THEN Append([flows EXCEPT ![f] = moved],
                              NewFlow("missingToolchain",
                                      fl.steps[Len(fl.steps)][2],
                                      fl.origin, "rustupVersion",
                                      <<<<"rustup --version", "">>>>))
                   ELSE IF check
                      THEN promptToUpdateToolchainCall(
                              [flows EXCEPT ![f] = moved],
                              checkForToolchainUpdates, {}, "switch")
                      ELSE [flows EXCEPT ![f] = moved]
       IN  /\ (remedy \/ check) => Len(flows) < MaxFlows
           /\ rlsToolchain' = configured
           /\ notifications' = notes
           /\ flows' = resumed(next, notes, configured)
    /\ UNCHANGED <<checkForToolchainUpdates, activeOverrides>>
    /\ promptFrame

\* a _checkToolchain called for a server that starts fails:
\* _handleMissingToolchain(toolchain) up to its first await
checkToolchainFailed ==
    /\ Len(flows) < MaxFlows
    /\ flows' = Append(flows,
          NewFlow("missingToolchain", rlsToolchain, "check", "rustupVersion",
                  <<<<"rustup --version", "">>>>))
    /\ UNCHANGED <<checkForToolchainUpdates, activeOverrides, notifications,
                   rlsToolchain>>
    /\ promptFrame

\* the awaits of _handleMissingToolchain settle: `rustup --version`, and
\* when rustup is there checkHasRls(toolchain); then _handleMissingRustup,
\* the prompt with the Install button, or the prompt of
\* _handleMissingToolchainMissingRls is shown
checkHasRlsAnswer(f, found) ==
    /\ f \in 1..Len(flows)
    /\ flows[f].at = "rustupVersion"
    /\ IF found = "noRustup"
          THEN LET got == handleMissingRustup(
                             [flows EXCEPT ![f].failed = "rustup --version"],
                             f, notifications)
               IN  /\ notifications' = got.notes
                   /\ flows' = resumed(got.flows, got.notes, rlsToolchain)
          ELSE LET notes == atomPrompt(notifications,
                                       IF found = "hasRls"
                                          THEN "missingToolchain"
                                          ELSE "missingRls",
                                       flows[f].toolchain, f)
               IN  /\ notifications' = notes
                   /\ flows' = resumed(
                         [flows EXCEPT
                            ![f].at = IF found = "hasRls" THEN "prompt"
                                      ELSE "returned",
                            ![f].steps = Append(@, <<"checkHasRls",
                                                     flows[f].toolchain>>),
                            ![f].note = Len(notes)],
                         notes, rlsToolchain)
    /\ UNCHANGED <<checkForToolchainUpdates, activeOverrides, rlsToolchain>>
    /\ promptFrame

\* the Install button of the prompt of f is clicked: resolve('Install'),
\* notification.dismiss(), and the call goes on
installClicked(f) ==
    /\ f \in 1..Len(flows)
    /\ flows[f].kind \in {"missingToolchain", "missingRustup"}
    /\ flows[f].at = "prompt"
    /\ notifications[flows[f].note].answer = "pending"
    /\ LET clicked == [notifications EXCEPT
                         ![flows[f].note].answer = "Install",
                         ![flows[f].note].dismissed = TRUE]
           notes == IF flows[f].kind = "missingToolchain"
                       THEN clearIdeRustInfos(clicked) ELSE clicked
       IN  /\ notifications' = notes
           /\ flows' = resumed(flows, notes, rlsToolchain)
    /\ UNCHANGED <<checkForToolchainUpdates, activeOverrides, rlsToolchain>>
    /\ promptFrame

\* the user dismisses the prompt n
noteDismissed(n) ==
    /\ n \in 1..Len(notifications)
    /\ ~notifications[n].dismissed
    /\ notifications[n].kind \notin {"success", "error"}
    /\ notifications' = [notifications EXCEPT ![n] = dismissNote(@)]
    /\ flows' = resumed(flows, notifications', rlsToolchain)
    /\ UNCHANGED <<checkForToolchainUpdates, activeOverrides, rlsToolchain>>
    /\ promptFrame

\* the update checks: the calls of _promptToUpdateToolchain, from the
\* timer, from the setting being switched on and from
\* _refreshActiveOverrides, and the Update button
NextUpdates ==
    \/ updateCheckDue
    \/ \E enabled \in {TRUE} : setCheckForToolchainUpdates(enabled)
    \/ \E overrides \in SUBSET OverrideToolchains :
          refreshActiveOverrides(overrides)
    \/ \E f \in 1..Len(flows), ok \in BOOLEAN : hasCommandAnswer(f, ok)
    \/ \E f \in 1..Len(flows), got \in {"noRustc", "none", "newVersion"} :
          fetchLatestDistAnswer(f, got)
    \/ \E f \in 1..Len(flows) : updateClicked(f)
    \/ \E f \in 1..Len(flows), ok \in BOOLEAN : stepDone(f, ok)
    \/ \E n \in 1..Len(notifications) : noteDismissed(n)

\* the remedies: the calls of _handleMissingToolchain and the Install
\* buttons
NextRemedies ==
    \/ checkToolchainFailed
    \/ \E f \in 1..Len(flows), found \in {"noRustup", "hasRls", "noRls"} :
          checkHasRlsAnswer(f, found)
    \/ \E f \in 1..Len(flows) : installClicked(f)
    \/ \E f \in 1..Len(flows), ok \in BOOLEAN : stepDone(f, ok)
    \/ \E n \in 1..Len(notifications) : noteDismissed(n)

\* the calls of the toolchain watcher that wait for their debounce timer
debouncing == {f \in 1..Len(flows) : flows[f].at = "debounce"}

\* the user sets "ide-rust.rlsToolchain" to t: the debounced onDidChange
\* handler is called, which starts its timer of one second, or starts it
\* again when it is running
rlsToolchainChanged(t) ==
    /\ t # rlsToolchain
    /\ debouncing = {} => Len(flows) < MaxFlows
    /\ rlsToolchain' = t
    /\ flows' = IF debouncing = {}
                   THEN Append(flows, NewFlow("toolchainSwitch", t, "switch",
                                              "debounce", <<>>))
                   ELSE [f \in 1..Len(flows) |->
                           IF f \in debouncing
                              THEN [flows[f] EXCEPT !.toolchain = t]
                              ELSE flows[f]]
    /\ UNCHANGED <<checkForToolchainUpdates, activeOverrides, notifications>>
    /\ promptFrame

\* the debounce timer of the watcher call f fires: without a command
\* override the handler calls _checkToolchain(), which reads the configured
\* toolchain and runs its `rustc --version`
watcherFires(f) ==
    /\ f \in debouncing
    /\ flows' = [flows EXCEPT
                   ![f].at = IF rlsCommandOverride THEN "returned"
                             ELSE "running",
                   ![f].steps = IF rlsCommandOverride THEN @
                                ELSE <<<<"_checkToolchain", rlsToolchain>>>>,
                   ![f].chain = IF rlsCommandOverride THEN @
                                ELSE <<"checkRls", "restartAllServers">>]
    /\ UNCHANGED <<checkForToolchainUpdates, activeOverrides, notifications,
                   rlsToolchain>>
    /\ promptFrame

\* the remedies while the user changes the configured toolchain
NextSwitch ==
    \/ checkToolchainFailed
    \/ \E f \in 1..Len(flows), found \in {"noRustup", "hasRls", "noRls"} :
          checkHasRlsAnswer(f, found)
    \/ \E f \in 1..Len(flows) : installClicked(f)
    \/ \E f \in 1..Len(flows), ok \in BOOLEAN : stepDone(f, ok)
    \/ \E n \in 1..Len(notifications) : noteDismissed(n)
    \/ \E t \in {"nightly", "nightly-d"} : rlsToolchainChanged(t)
    \/ \E f \in 1..Len(flows) : watcherFires(f)

\* the toolchains the overrides of two projects name
ProjectOverrides == {"stable", "nightly"}

\* the update checks _refreshActiveOverrides starts while the overrides of
\* the tracked projects come, go and are replaced
NextOverrides ==
    \/ \E overrides \in SUBSET ProjectOverrides :
          refreshActiveOverrides(overrides)
    \/ \E f \in 1..Len(flows), ok \in BOOLEAN : hasCommandAnswer(f, ok)
    \/ \E f \in 1..Len(flows), got \in {"noRustc", "none", "newVersion"} :
          fetchLatestDistAnswer(f, got)
    \/ \E n \in 1..Len(notifications) : noteDismissed(n)

\* the configured toolchain is a dated nightly
InitPrompts ==
    /\ rlsToolchain = "nightly-d"
    /\ IdlePrompts

InitSpecPrompts == InitPrompts /\ IdleExceptPrompts

SpecUpdates == InitSpecPrompts /\ [][NextUpdates]_vars

SpecRemedies == InitSpecPrompts /\ [][NextRemedies]_vars

SpecSwitch == InitSpecPrompts /\ [][NextSwitch]_vars

SpecOverrides == InitSpecPrompts /\ [][NextOverrides]_vars

\* the commands the flow f has issued from its step number first on
commandsFrom(f, first) ==
    [k \in 1..(Len(f.steps) - first + 1) |-> f.steps[k + first - 1][1]]

\* the Update button of the prompt of flow i has been clicked
updateAccepted(i) ==
    /\ flows[i].kind = "toolchainCheck"
    /\ flows[i].note # 0
    /\ notifications[flows[i].note].answer = "Update"

C22_MissingRustupDisablesChecks ==
    /\ [](\A i \in 1..Len(flows) :
            /\ flows[i].failed = "rustup -V" =>
                  /\ \A k \in 1..Len(flows[i].steps) :
                        flows[i].steps[k][1] # "fetchLatestDist"
                  /\ flows[i].note # 0
                  /\ notifications[flows[i].note].kind = "missingRustup"
            /\ ~flows[i].enabled =>
                  flows[i].steps = <<>> /\ flows[i].at = "returned")
    /\ [][\A i \in 1..Len(flows) :
             (flows[i].failed = "" /\ flows'[i].failed = "rustup -V") =>
                /\ flows[i].enabled
                /\ ~checkForToolchainUpdates'
                /\ flows'[i].note = Len(notifications')
                /\ ~notifications'[flows'[i].note].dismissed]_vars
    /\ [][\A i \in (Len(flows) + 1)..Len(flows') :
             flows'[i].kind = "updateCheck" =>
                flows'[i].enabled = checkForToolchainUpdates']_vars
    /\ [][(~checkForToolchainUpdates /\ checkForToolchainUpdates') =>
             /\ Len(flows') = Len(flows) + 1
             /\ flows'[Len(flows')].enabled
             /\ flows'[Len(flows')].at = "hasCommand"]_vars

\* a check found rustup absent, and a later check returned at once
C22_Witness ==
    \E i, j \in 1..Len(flows) :
       /\ i < j
       /\ flows[i].failed = "rustup -V"
       /\ flows[j].kind = "updateCheck"
       /\ ~flows[j].enabled
       /\ ~checkForToolchainUpdates

\* the update prompts that checks called by _refreshActiveOverrides added
refreshPrompts ==
    {n \in 1..Len(notifications) :
        /\ notifications[n].kind = "update"
        /\ flows[notifications[n].flow].origin = "refresh"}

\* C25: _refreshActiveOverrides never issues an update prompt for a
\* toolchain for which it has issued one before, an override that
\* disappears and reappears included.
C25_NoRepeatedPrompt ==
    \A m, n \in refreshPrompts :
       flows[notifications[m].flow].toolchain =
          flows[notifications[n].flow].toolchain => m = n

\* the install commands among the steps of a flow
installSteps(f) ==
    {k \in 1..Len(f.steps) :
        f.steps[k][1] \in {"rustup toolchain install", "installRustup"}}

\* C27: `rustup toolchain install` or the rustup bootstrap is run only by a
\* call whose prompt was answered by a click on Install; a call whose
\* prompt was dismissed, by the user or by a later prompt, runs no install
\* command and ends; after the install _checkToolchain is called, and the
\* servers are restarted only after both have succeeded.
C27_InstallOnlyAfterClick ==
    \A i \in 1..Len(flows) :
       LET f == flows[i]
           first == CHOOSE k \in installSteps(f) : TRUE
           cmds == commandsFrom(f, first)
           order == <<IF f.kind = "missingRustup" THEN "installRustup"
                      ELSE "rustup toolchain install",
                      "_checkToolchain", "restartAllServers">>
       IN  f.kind \in {"missingToolchain", "missingRustup"} =>
              /\ installSteps(f) # {} =>
                    /\ f.note # 0
                    /\ notifications[f.note].answer = "Install"
                    /\ cmds = SubSeq(order, 1, Len(cmds))
                    /\ f.at \in {"running", "done", "failed"}
                    /\ f.at = "failed" => f.failed = cmds[Len(cmds)]
                    /\ f.at = "running" =>
                          f.failed \in {"", "rustup --version"}
                    /\ f.at = "done" => cmds = order
              /\ (f.note # 0 /\ notifications[f.note].answer = "null") =>
                    installSteps(f) = {} /\ f.at = "returned"

\* the prompt of one call was cleared by the prompt of a later call, whose
\* install was accepted and went through to the restart
C27_Witness ==
    \E i, j \in 1..Len(flows) :
       /\ flows[i].kind = "missingToolchain"
       /\ flows[i].note # 0
       /\ flows[j].note > flows[i].note
       /\ notifications[flows[i].note].answer = "null"
       /\ flows[i].at = "returned"
       /\ installSteps(flows[j]) # {}
       /\ flows[j].at = "done"

\* C38: the toolchain installed when the user clicks Install on a
\* missing-toolchain prompt is the toolchain the prompt names, however the
\* click interleaves with changes of the toolchain setting made after the
\* prompt was shown.
C38_InstallsPromptedToolchain ==
    \A i \in 1..Len(flows) :
       flows[i].kind = "missingToolchain" =>
          \A k \in installSteps(flows[i]) :
             flows[i].steps[k][2] = notifications[flows[i].note].toolchain

\* C39: whenever an override refresh finds in the new set of active
\* overrides a toolchain that was not in the previous set and is not the
\* configured toolchain, it starts an update check that covers that
\* toolchain, also when the set changes without growing.
C39_NewOverrideIsChecked ==
    [][\A t \in activeOverrides' \ activeOverrides :
          t # confToolchain(rlsToolchain) =>
             /\ Len(flows') = Len(flows) + 1
             /\ flows'[Len(flows')].origin = "refresh"
             /\ t \notin flows'[Len(flows')].ignore]_vars

\* C16: once deactivate() has run, no periodic timer is pending and no
\* update check is begun any more, whether deactivate() came while a timer
\* was waiting or while an update check was being awaited.
C16_DeactivateStopsChecks ==
    deactivated => (timers = {} /\ ~checkedAfterDeactivate)

(***************************************************************************)
(* Claims about the orchestrator.                                          *)
(***************************************************************************)
\* u is str without the white space at its two ends and then without the
\* slashes at its end: str is a spaces, u, n slashes, and spaces
isNormalFormOf(u, str) ==
    /\ u # <<>> => ~isSlash(u[Len(u)])
    /\ \E a, n \in 0..Len(str) :
          LET b == a + Len(u) + n
          IN  /\ b <= Len(str)
              /\ SubSeq(str, a + 1, a + Len(u)) = u
              /\ \A i \in 1..Len(str) :
                    /\ (i <= a \/ i > b) => isWhiteSpace(str[i])
                    /\ (a + Len(u) < i /\ i <= b) => isSlash(str[i])
              /\ b > a => ~isWhiteSpace(str[a + 1]) /\ ~isWhiteSpace(str[b])

\* the entries of a comma-separated list: its maximal pieces without comma
entries(list) ==
    {SubSeq(list, i, j) : <<i, j>> \in
        {ij \in (1..(Len(list) + 1)) \X (0..Len(list)) :
            /\ ij[1] <= ij[2] + 1
            /\ ij[1] = 1 \/ list[ij[1] - 1] = ","
            /\ ij[2] = Len(list) \/ list[ij[2] + 1] = ","
            /\ \A k \in ij[1]..ij[2] : list[k] # ","}}

\* the path matches an entry of the ignore list
onIgnoreList(path) ==
    /\ ignoredProjectPaths # <<>>
    /\ \E e \in entries(ignoredProjectPaths) :
          \E i \in 1..(Len(path) + 1), j \in 0..Len(path) :
             /\ isNormalFormOf(SubSeq(path, i, j), path)
             /\ isNormalFormOf(SubSeq(path, i, j), e)

\* C4: for a project path that matches an entry of the comma-separated
\* ignore list, both trimmed and without trailing slashes, a call of
\* startServerProcess (the first, or one that follows restart-all) does
\* nothing: no command is run, no process spawned, no notification added,
\* no flag set; so such a path never has a start in progress, a server or
\* a project.
C4_IgnoredPathStartsNothing ==
    LET ignored == {r \in roots : onIgnoreList(r)}
    IN  /\ (lastStep.op = "startServerProcess" /\ lastStep.path \in ignored) =>
              lastStep.effects = {}
        /\ \A r \in ignored :
              /\ starting[r] = "none"
              /\ \A s \in servers : s.path # r
              /\ \A e \in projects : e.path # r
        /\ ignored = roots =>
              /\ flags = [periodicUpdateChecking |-> FALSE,
                          conflictingPackageChecking |-> FALSE,
                          warnedAboutRlsCommandOverride |-> FALSE]

\* the start of "a/" returned at once: " a" is on the list
C4_Witness ==
    /\ ignoredProjectPaths = <<",", " ", "a">>
    /\ lastStep = [op |-> "startServerProcess", path |-> <<"a", "/">>,
                   effects |-> {}]

\* C5: the project map never holds two sessions for one project path, and
\* the session it holds is that of a running, initialised server of the
\* path.
C5_OneSessionPerPath ==
    /\ \A e, f \in projects : e.path = f.path => e = f
    /\ \A e \in projects :
          \E s \in servers :
             s.id = e.project /\ s.path = e.path /\ s.phase = "initialised"

\* both projects have a session; the one of "a" replaced that of a stopped
\* server whose process has yet to exit
C5_Witness ==
    /\ Cardinality(projects) = 2
    /\ \E s, t \in servers :
          /\ s.path = <<"a">> /\ t.path = <<"a">>
          /\ s.stopped /\ s.phase = "initialised"
          /\ [path |-> <<"a">>, project |-> t.id] \in projects

\* the checks a call passes before it spawns, without an override
BothChecks == <<"rustc --version", "checkRls">>

\* C18: without a command override a call of startServerProcess spawns the
\* server only after its toolchain version query has succeeded and, after
\* that, its component check has succeeded; the process is spawned with the
\* project root as working directory.
C18_ChecksBeforeSpawn ==
    ~rlsCommandOverride =>
       /\ \A s \in servers :
             /\ s.command # "override"
             /\ s.after = BothChecks
             /\ s.cwd = s.path
       /\ \A path \in roots :
             /\ starting[path] = "checkRls" => trail[path] = <<"rustc --version">>
             /\ starting[path] = "serverEnv" => trail[path] = BothChecks
             /\ starting[path] # "overrideEnv"

\* the call for one project has just returned the process it spawned after
\* both checks, while the call for the other project awaits its component
\* check
C18_Witness ==
    /\ ~rlsCommandOverride
    /\ lastResult.state = "returned" /\ lastResult.path = <<"a">>
    /\ \E s \in servers :
          /\ s.id = lastResult.value /\ s.cwd = <<"a">>
          /\ s.after = BothChecks /\ s.command = "rls"
    /\ starting[<<"/">>] = "checkRls"

\* C19: when the toolchain check or the component check of a call of
\* startServerProcess fails, the call rejects with an Error whose message
\* is `failed to start server: ` followed by the cause, and the call spawns
\* no process.
C19_FailureRejectsWithPrefix ==
    [][\A path \in roots :
          (starting[path] \in {"checkToolchain", "checkRls"}
              /\ starting'[path] = "none") =>
             /\ lastResult' = [path |-> path, state |-> "rejected",
                               value |-> <<"failed to start server: ",
                                           IF starting[path] = "checkToolchain"
                                              THEN "rustc --version failed"
                                              ELSE "checkRls failed">>]
             /\ servers' = servers]_vars

\* a call whose toolchain query had succeeded was rejected for its
\* component check, and its project has no process
C19_Witness ==
    /\ lastResult.state = "rejected"
    /\ lastResult.value = <<"failed to start server: ", "checkRls failed">>
    /\ starting[lastResult.path] = "none"
    /\ \A s \in servers : s.path # lastResult.path

\* C20: with a command override a call of startServerProcess spawns the
\* override command and runs neither the toolchain check nor the component
\* check; however many calls are made, the 'Using rls command' notice is
\* added at most once.
C20_OverrideSkipsChecks ==
    /\ notices <= 1
    /\ rlsCommandOverride =>
          /\ \A s \in servers : s.command = "override" /\ s.after = <<>>
          /\ \A path \in roots :
                /\ starting[path] \notin {"checkToolchain", "checkRls",
                                          "serverEnv"}
                /\ trail[path] = <<>>

\* two calls have each spawned the override command; one notice was added
C20_Witness ==
    /\ rlsCommandOverride
    /\ notices = 1
    /\ \E s, t \in servers :
          /\ s.path = <<"a">> /\ t.path = <<"/">>
          /\ s.command = "override" /\ t.command = "override"

(***************************************************************************)
(* Remote version oracle, the channel manifest: lib/dist-fetch.js,         *)
(* manifest_includes_rls and fetchLatestDist.                              *)
(*                                                                         *)
(* A manifest is the sequence of its lines, each a key and a value:        *)
(* a section header `[pkg.NAME]`, a `version = "..."` line, or a line      *)
(* `pkg = "NAME"` that mentions a component.  Version strings are tuples   *)
(* of characters, "r" standing for the prefix `rustc `.                    *)
(***************************************************************************)
section(name) == [key |-> "section", value |-> <<name>>]

version(v) == [key |-> "version", value |-> v]

mention(name) == [key |-> "pkg", value |-> <<name>>]

ManifestVersions == {<<"1">>, <<"2">>, <<"1", " ">>}

\* the part of a manifest about rustc
RustcParts ==
    {<<>>, <<section("rustc")>>}
    \cup {<<section("rustc"), version(v)>> : v \in ManifestVersions}

\* the part of a manifest about rls-preview
RlsParts ==
    {<<>>,
     <<mention("rls-preview")>>,
     <<section("rls-preview"), version(<<"1">>)>>,
     <<section("rls-preview"), version(<<>>)>>,
     <<section("rls-preview"), version(<<" ">>)>>}

Manifests ==
    {a \o b : a \in RustcParts, b \in RlsParts}
    \cup {b \o a : a \in RustcParts, b \in RlsParts}

\* what `rustc --version` printed, or the default "none" (written "n")
CurrentVersions ==
    {<<"n">>, <<"r", "1">>, <<"r", "1", " ">>, <<"r", "2">>, <<"1">>,
     <<"r", "2", "1">>}

\* what an https.get can come to
Responses ==
    {[kind |-> "error", code |-> c, statusCode |-> 0, body |-> <<>>] :
        c \in {"ENOTFOUND", "ECONNRESET"}}
    \cup {[kind |-> "response", code |-> "", statusCode |-> 404, body |-> <<>>]}
    \cup {[kind |-> "response", code |-> "", statusCode |-> 200, body |-> m] :
             m \in Manifests}

\* manifest.includes("rls-preview")
includesRlsPreview(manifest) ==
    \E i \in 1..Len(manifest) : manifest[i].value = <<"rls-preview">>

\* manifest.includes('[pkg.rls-preview]\nversion = ""')
includesEmptyRlsVersion(manifest) ==
    \E i \in 1..(Len(manifest) - 1) :
       /\ manifest[i] = section("rls-preview")
       /\ manifest[i + 1] = version(<<>>)

manifest_includes_rls(manifest) ==
    includesRlsPreview(manifest) /\ ~includesEmptyRlsVersion(manifest)

\* body.match(/(\[pkg\.rustc][^[]*)/m): the lines from the first
\* `[pkg.rustc]` up to the next section header; <<>> when there is none
rustcInfo(body) ==
    IF \A i \in 1..Len(body) : body[i] # section("rustc") THEN <<>>
    ELSE LET first == CHOOSE i \in 1..Len(body) :
                         /\ body[i] = section("rustc")
                         /\ \A j \in 1..(i - 1) : body[j] # section("rustc")
             next == {j \in (first + 1)..Len(body) : body[j].key = "section"}
             last == IF next = {} THEN Len(body)
                     ELSE (CHOOSE j \in next : \A k \in next : j <= k) - 1
         IN  SubSeq(body, first, last)

\* the lines of the section that set `version`
versionLines(info) == SelectSeq(info, LAMBDA line : line.key = "version")

\* how a fetch ends: resolve(value), reject(error), or an exception thrown
\* in the 'end' callback, which leaves the promise pending for ever
resolved(value) == [state |-> "resolved", value |-> value]
rejected(error) == [state |-> "rejected", value |-> <<error>>]
Thrown == [state |-> "thrown", value |-> <<"TypeError">>]
Pending == [state |-> "pending", value |-> <<>>]

\* the values that are not strings, as tuples no version string equals
False == <<"false">>
Undefined == <<"undefined">>

\* the 'end' callback of fetchLatestDist
onEnd(body, currentVersion) ==
    LET info == rustcInfo(body)
        rustcVersion == trim(versionLines(info)[1].value)
    IN  IF info = <<>> THEN rejected("could not split channel toml output")
        ELSE IF versionLines(info) = <<>> THEN Thrown
        ELSE IF endsWith(trim(currentVersion), rustcVersion) THEN resolved(False)
        ELSE IF ~manifest_includes_rls(body) THEN resolved(False)
        ELSE resolved(<<"r">> \o rustcVersion)

InitLatest == IdleLatest

\* fetchLatestDist({ toolchain, currentVersion }): the request is sent
fetchLatestDist(currentVersion) ==
    /\ Len(fetches) < MaxFetches
    /\ fetches' = Append(fetches, [currentVersion |-> currentVersion,
                                   response |-> <<>>, result |-> Pending])
    /\ UNCHANGED suggested
    /\ UNCHANGED exceptLatest

\* the callbacks of the https.get of fetch f, the request coming to res
httpsGet(f, res) ==
    /\ fetches[f].response = <<>>
    /\ fetches' = [fetches EXCEPT ![f] =
          [@ EXCEPT !.response = <<res>>,
                    !.result =
                       IF res.kind = "error" THEN resolved(Undefined)
                       ELSE IF res.statusCode # 200
                          THEN rejected("check for toolchain update failed")
                       ELSE onEnd(res.body, fetches[f].currentVersion)]]

\* the request of fetch f comes to res
latestResponse(f, res) ==
    /\ httpsGet(f, res)
    /\ UNCHANGED suggested
    /\ UNCHANGED exceptLatest

NextLatest ==
    \/ \E v \in CurrentVersions : fetchLatestDist(v)
    \/ \E f \in 1..Len(fetches), res \in Responses : latestResponse(f, res)

InitSpecLatest == InitLatest /\ IdleExceptLatest

SpecLatest == InitSpecLatest /\ [][NextLatest]_vars

(***************************************************************************)
(* Claims about fetchLatestDist, checked under SpecLatest.                 *)
(***************************************************************************)
\* the rustc version a manifest states: the values of the version lines
\* that follow `[pkg.rustc]` before any other section
statedVersions(body) ==
    {body[i].value : i \in
        {i \in 1..Len(body) :
            /\ body[i].key = "version"
            /\ \E h \in 1..(i - 1) :
                  /\ body[h] = section("rustc")
                  /\ \A j \in (h + 1)..(i - 1) : body[j].key # "section"}}

\* the manifest names rls-preview, and not as a package of empty version
hasRlsWithVersion(body) ==
    /\ \E i \in 1..Len(body) : body[i].value = <<"rls-preview">>
    /\ \A i \in 1..Len(body) :
          (body[i] = section("rls-preview") /\ i < Len(body)) =>
             body[i + 1] # version(<<>>)

falsy(result) == result.state = "resolved" /\ result.value \in {False, Undefined}

C7_WitnessUpdate ==
    \E f \in 1..Len(fetches) :
       /\ fetches[f].currentVersion = <<"r", "1">>
       /\ fetches[f].response # <<>>
       /\ fetches[f].response[1].body =
             <<section("rls-preview"), version(<<"1">>),
               section("rustc"), version(<<"2">>)>>
       /\ fetches[f].result = resolved(<<"r", "2">>)

\* how the update check of _promptToUpdateToolchain stands for a fetch:
\* `await fetchLatestDist(...).catch(() => false)`, then
\* `if (!newVersion) return`, else the notification of the update
promptToUpdateToolchain(result) ==
    CASE result.state = "rejected" -> "no update"
      [] result.state = "resolved" ->
            IF result.value \in {False, Undefined} THEN "no update"
                                                   ELSE "update offered"
      [] OTHER -> "pending"

\* the fetch failed: a connection error, a status other than 200, a
\* manifest without [pkg.rustc], or one whose rustc section has no version
\* to be parsed
failedFetch(res) ==
    \/ res.kind = "error"
    \/ res.statusCode # 200
    \/ rustcInfo(res.body) = <<>>
    \/ versionLines(rustcInfo(res.body)) = <<>>

\* C14: for every failing outcome of the channel-manifest fetch (connection
\* error, status other than 200, manifest without [pkg.rustc], rustc
\* section that cannot be parsed) the update check completes with `no
\* update`: no exception escapes and the check does not stay pending.
C14_FailuresAbsorbed ==
    \A f \in 1..Len(fetches) :
       (fetches[f].response # <<>> /\ failedFetch(fetches[f].response[1])) =>
          /\ fetches[f].result.state # "thrown"
          /\ promptToUpdateToolchain(fetches[f].result) = "no update"

(***************************************************************************)
(* Remote version oracle, the dated manifests: lib/dist-fetch.js,          *)
(* checkDatedDistHasRls and fetchLatestDatedDistWithRls.                   *)
(*                                                                         *)
(* Time is counted in ticks, aDayMillis ticks to the day.  A date string   *)
(* (YYYY-MM-DD, UTC) is written as the number of its day; a cache key is   *)
(* the date string (the channel is the same in all calls).  The cache maps *)
(* a key to the state of the promise stored for it.  When a promise        *)
(* settles, the handlers of the walks that wait for it run in the same     *)
(* drain of the microtask queue, and so do the handlers of the cached,     *)
(* settled promises they come to next.                                     *)
(***************************************************************************)
aDayMillis == 2

WindowDays == 30

\* date.toISOString().split("T")[0]
dateString(date) == date \div aDayMillis

InitWalk == now = Epoch /\ NewWalkState

\* time passes
tick ==
    /\ now < Epoch + MaxTicks
    /\ now' = now + 1
    /\ UNCHANGED <<datedNightlyHasRlsCache, walks, errors>>
    /\ UNCHANGED exceptWalk

\* mutant: the walk never finds the previous day too old
withinWindowAlways(yesterday, minDate) == TRUE

\* `yesterday >= minDate`
withinWindow(yesterday, minDate) == yesterday >= minDate

\* datedNightlyHasRlsCache.set(cacheKey, fetch)
cacheSet(cache, key, promise) ==
    [k \in DOMAIN cache \cup {key} |-> IF k = key THEN promise ELSE cache[k]]

\* datedNightlyHasRlsCache.delete(cacheKey)
cacheDelete(cache, key) == [k \in DOMAIN cache \ {key} |-> cache[k]]

\* mutant: the cache is never found to hold the key
cacheHasNever(cache, key) == FALSE

\* datedNightlyHasRlsCache.has(cacheKey); a promise stored is truthy, so
\* this is also whether get(cacheKey) yields it
cacheHas(cache, key) == key \in DOMAIN cache

\* check(day) of the walk w, with the cache as it is: the walk and the
\* cache once the handlers that can run have run
RECURSIVE check(_, _, _)
check(w, day, cache) ==
    LET key == dateString(day)
        w1 == [w EXCEPT !.day = day, !.queried = Append(@, key)]
        yesterday == day - aDayMillis
        w2 == [w1 EXCEPT !.failed = @ + 1]
    IN  IF ~cacheHas(cache, key)
           THEN [walk |-> w1, cache |-> cacheSet(cache, key, "pending")]
        ELSE IF cache[key] = "pending" THEN [walk |-> w1, cache |-> cache]
        ELSE IF cache[key] = "resolved"
           THEN [walk |-> [w1 EXCEPT !.outcome = resolved(<<key>>)],
                 cache |-> cache]
        ELSE IF withinWindow(yesterday, w.minDate)
           THEN check(w2, yesterday, cache)
        ELSE [walk |-> [w2 EXCEPT !.outcome =
                           rejected("No nightly with 'rls-preview'")],
              cache |-> cache]

\* the dated toolchains the user may configure, by their date strings
DatedToolchains == {dateString(Epoch) - 1}

\* checkHasRls(toolchain) for a dated toolchain: checkDatedDistHasRls is
\* called with the date of the name
checkHasRls(date) ==
    /\ ~cacheHas(datedNightlyHasRlsCache, date)
    /\ datedNightlyHasRlsCache' = cacheSet(datedNightlyHasRlsCache, date, "pending")
    /\ UNCHANGED <<now, walks, errors>>
    /\ UNCHANGED exceptWalk

\* fetchLatestDatedDistWithRls(channel); the clock may tick between
\* Date.now() and new Date().  One call is made.
walkFrom(d) ==
    /\ walks = <<>>
    /\ now + d <= Epoch + MaxTicks
    /\ now' = now + d
    /\ LET w == [start |-> now + d, minDate |-> now - WindowDays * aDayMillis,
                 day |-> now + d, queried |-> <<>>, failed |-> 0,
                 notFoundAt |-> 0, outcome |-> Pending]
           got == check(w, now + d, datedNightlyHasRlsCache)
       IN  /\ walks' = <<got.walk>>
           /\ datedNightlyHasRlsCache' = got.cache
    /\ UNCHANGED errors

fetchLatestDatedDistWithRls(d) ==
    /\ walkFrom(d)
    /\ UNCHANGED exceptWalk

\* how the promise of a dated request settles: on a data event that makes
\* the body so far pass manifest_includes_rls it resolves; the body comes
\* in two chunks, the first of cut lines
settles(res, cut) ==
    IF res.kind = "error" THEN "error"
    ELSE IF res.statusCode # 200 THEN "rejected"
    ELSE IF \/ cut > 0 /\ manifest_includes_rls(SubSeq(res.body, 1, cut))
            \/ manifest_includes_rls(res.body)
       THEN "resolved"
    ELSE "rejected"

\* mutant: no error is taken for a failed DNS resolution
isNotFoundNever(res) == FALSE

\* `e && e.code === "ENOTFOUND"`
isNotFound(res) == res.kind = "error" /\ res.code = "ENOTFOUND"

\* the catch handler of each walk that waits for the promise of key,
\* from walk i on; notFoundAt tells which query of the walk, if any, came
\* to a failed DNS resolution
RECURSIVE handlers(_, _, _, _, _)
handlers(i, ws, cache, key, res) ==
    IF i > Len(ws) THEN [walks |-> ws, cache |-> cache]
    ELSE LET waits == /\ ws[i].outcome.state = "pending"
                      /\ ws[i].queried[Len(ws[i].queried)] = key
             w == IF res.kind = "error" /\ res.code = "ENOTFOUND"
                     THEN [ws[i] EXCEPT !.notFoundAt = Len(ws[i].queried)]
                     ELSE ws[i]
             yesterday == w.day - aDayMillis
             failed == [w EXCEPT !.failed = @ + 1]
             got == IF isNotFound(res)
                       THEN [walk |-> [w EXCEPT !.outcome = rejected("ENOTFOUND")],
                             cache |-> cache]
                    ELSE IF withinWindow(yesterday, w.minDate)
                       THEN check(failed, yesterday, cache)
                    ELSE [walk |-> [failed EXCEPT !.outcome =
                                      rejected("No nightly with 'rls-preview'")],
                          cache |-> cache]
         IN  IF ~waits THEN handlers(i + 1, ws, cache, key, res)
             ELSE handlers(i + 1, [ws EXCEPT ![i] = got.walk], got.cache, key, res)

\* the callbacks of the https.get for key, the request coming to res, and
\* the handlers that run when its promise settles
datedGet(key, res, cut) ==
    /\ key \in DOMAIN datedNightlyHasRlsCache
    /\ datedNightlyHasRlsCache[key] = "pending"
    /\ cut \in 0..Len(res.body)
    /\ (res.kind = "error" /\ res.code # "ENOTFOUND") => errors < MaxErrors
    /\ errors' = IF res.kind = "error" /\ res.code # "ENOTFOUND"
                    THEN errors + 1 ELSE errors
    /\ IF settles(res, cut) = "resolved"
          THEN /\ datedNightlyHasRlsCache' =
                     cacheSet(datedNightlyHasRlsCache, key, "resolved")
               /\ walks' = [i \in 1..Len(walks) |->
                     IF /\ walks[i].outcome.state = "pending"
                        /\ walks[i].queried[Len(walks[i].queried)] = key
                        THEN [walks[i] EXCEPT !.outcome = resolved(<<key>>)]
                        ELSE walks[i]]
          ELSE LET cache == IF settles(res, cut) = "error"
                               THEN cacheDelete(datedNightlyHasRlsCache, key)
                               ELSE cacheSet(datedNightlyHasRlsCache, key, "rejected")
                   got == handlers(1, walks, cache, key, res)
               IN  /\ walks' = got.walks
                   /\ datedNightlyHasRlsCache' = got.cache
    /\ UNCHANGED now

\* the request for key comes to res
datedResponse(key, res, cut) ==
    /\ datedGet(key, res, cut)
    /\ UNCHANGED exceptWalk

\* what the request for a dated manifest can come to; of the manifest,
\* the part about rls-preview is what matters
DatedResponses ==
    {res \in Responses : res.statusCode = 200 => res.body \in RlsParts}

NextWalk ==
    \/ tick
    \/ \E date \in DatedToolchains : checkHasRls(date)
    \/ \E d \in {0, 1} : fetchLatestDatedDistWithRls(d)
    \/ \E key \in DOMAIN datedNightlyHasRlsCache, res \in DatedResponses,
          cut \in 0..1 :
          datedResponse(key, res, cut)

InitSpecWalk == InitWalk /\ IdleExceptWalk

SpecWalk == InitSpecWalk /\ [][NextWalk]_vars

(***************************************************************************)
(* suggestChannelOrDated(channel): lib/dist-fetch.js.  One call is made,   *)
(* for the channel of the dated manifests; the cache is empty before it.   *)
(***************************************************************************)
Channel == <<"nightly">>

\* the variables suggestChannelOrDated leaves alone
exceptSuggest == <<cfgVars, busyVars, progVars, checkVars, orchVars,
                   conflictVars, periodicVars, stdoutVars, datedVars,
                   watchVars, promptVars>>

\* ToBoolean of the value a fetch resolved with
truthy(result) ==
    result.state = "resolved" /\ result.value \notin {False, Undefined}

\* suggestChannelOrDated(channel) up to its await: the walk is started, then
\* the fetch of the channel's manifest, currentVersion being "none"
suggestChannelOrDated ==
    /\ suggested.state = "none"
    /\ walkFrom(0)
    /\ fetches' = Append(fetches, [currentVersion |-> <<"n">>,
                                   response |-> <<>>, result |-> Pending])
    /\ suggested' = Pending
    /\ UNCHANGED exceptSuggest

\* the fetch of the channel's manifest settles and suggestChannelOrDated
\* goes on: it returns the channel, or the promise of the walk; an
\* exception thrown in the 'end' callback leaves it waiting
suggestLatestResponse(res) ==
    /\ Len(fetches) = 1
    /\ httpsGet(1, res)
    /\ suggested' = IF fetches'[1].result.state = "thrown" THEN suggested
                    ELSE IF truthy(fetches'[1].result) THEN resolved(Channel)
                    ELSE walks[1].outcome
    /\ UNCHANGED walkVars
    /\ UNCHANGED exceptSuggest

\* a dated request of the walk settles; the promise suggestChannelOrDated
\* has returned, if it is the walk's, settles with the walk
suggestDatedResponse(key, res, cut) ==
    /\ suggested.state # "none"
    /\ datedGet(key, res, cut)
    /\ suggested' = IF /\ fetches[1].result.state \in {"resolved", "rejected"}
                       /\ ~truthy(fetches[1].result)
                       THEN walks'[1].outcome
                       ELSE suggested
    /\ UNCHANGED fetches
    /\ UNCHANGED exceptSuggest

\* what the fetch of the channel's manifest can come to
ChannelResponses ==
    {res \in Responses :
        res.statusCode = 200 =>
           res.body \in {a \o b : a \in RustcParts,
                                  b \in {<<>>, <<mention("rls-preview")>>}}}

NextSuggest ==
    \/ suggestChannelOrDated
    \/ \E res \in ChannelResponses : suggestLatestResponse(res)
    \/ \E key \in DOMAIN datedNightlyHasRlsCache, res \in DatedResponses,
          cut \in 0..1 :
          suggestDatedResponse(key, res, cut)

InitSpecSuggest == InitWalk /\ IdleExceptWalk

SpecSuggest == InitSpecSuggest /\ [][NextSuggest]_vars

\* C30: suggestChannelOrDated returns the channel whenever the fetch of
\* the channel's latest manifest gives a truthy result; when the fetch gives
\* a falsy result or fails it returns the outcome of the backward walk, and
\* a dated build the walk gives is the most recent one within the window
\* whose manifest contains the component: its manifest came with status 200
\* and passes manifest_includes_rls, and every later date was queried and
\* failed.
C30_ChannelOrLatestDated ==
    /\ [](suggested.state \notin {"none", "pending"} =>
            /\ fetches[1].result.state \in {"resolved", "rejected"}
            /\ IF truthy(fetches[1].result)
                  THEN suggested = resolved(Channel)
                  ELSE suggested = walks[1].outcome)
    /\ []((suggested.state = "pending"
             /\ fetches[1].result.state \in {"resolved", "rejected"}) =>
               ~truthy(fetches[1].result) /\ walks[1].outcome.state = "pending")
    /\ [][(/\ suggested.state = "pending"
           /\ suggested'.state = "resolved"
           /\ ~truthy(fetches'[1].result)) =>
             /\ suggested'.value = <<dateString(walks'[1].start)
                                      - walks'[1].failed>>
             /\ \A res \in DatedResponses, cut \in 0..1 :
                   (/\ walks[1].outcome.state = "pending"
                    /\ cut <= Len(res.body)
                    /\ settles(res, cut) = "resolved"
                    /\ suggestDatedResponse(
                          walks[1].queried[Len(walks[1].queried)], res, cut))
                   => /\ res.statusCode = 200
                      /\ manifest_includes_rls(res.body)]_vars

(***************************************************************************)
(* The cache of the dated manifests on its own: lib/dist-fetch.js,         *)
(* checkDatedDistHasRls called time and again for two dates.               *)
(*                                                                         *)
(* requests[key] tells how each https.get sent for the key has ended, in   *)
(* the order sent; a call is recorded with its key, the number of the      *)
(* request whose promise it returned, and the state of that promise.       *)
(***************************************************************************)
\* the dates checkDatedDistHasRls is called with
CalledDates == DatedToolchains \cup {dateString(Epoch)}

\* checkDatedDistHasRls(date, channel)
checkDatedDistHasRls(date) ==
    /\ Len(datedCalls) < MaxDatedCalls
    /\ IF cacheHas(datedNightlyHasRlsCache, date)
          THEN UNCHANGED <<datedNightlyHasRlsCache, requests>>
          ELSE /\ datedNightlyHasRlsCache' =
                     cacheSet(datedNightlyHasRlsCache, date, "pending")
               /\ requests' =
                     [k \in DOMAIN requests \cup {date} |->
                         IF k = date
                            THEN Append(IF date \in DOMAIN requests
                                           THEN requests[date] ELSE <<>>,
                                        "pending")
                            ELSE requests[k]]
    /\ datedCalls' = Append(datedCalls,
          [key |-> date, request |-> Len(requests'[date]),
           result |-> datedNightlyHasRlsCache'[date]])
    /\ UNCHANGED <<now, walks, errors>>
    /\ UNCHANGED exceptDated

\* the request in flight for key comes to res: the promise settles, and
\* with it every call that returned it
datedRequestEnds(key, res, cut) ==
    /\ key \in DOMAIN datedNightlyHasRlsCache
    /\ datedNightlyHasRlsCache[key] = "pending"
    /\ cut \in 0..Len(res.body)
    /\ res.kind = "error" => errors < MaxErrors
    /\ errors' = IF res.kind = "error" THEN errors + 1 ELSE errors
    /\ LET how == settles(res, cut)
       IN  /\ datedNightlyHasRlsCache' =
                 IF how = "error"
                    THEN cacheDelete(datedNightlyHasRlsCache, key)
                    ELSE cacheSet(datedNightlyHasRlsCache, key, how)
           /\ requests' = [requests EXCEPT ![key][Len(requests[key])] = how]
           /\ datedCalls' = [i \in 1..Len(datedCalls) |->
                 IF datedCalls[i].key = key /\ datedCalls[i].result = "pending"
                    THEN [datedCalls[i] EXCEPT !.result =
                            IF how = "resolved" THEN "resolved" ELSE "rejected"]
                    ELSE datedCalls[i]]
    /\ UNCHANGED <<now, walks>>
    /\ UNCHANGED exceptDated

NextDated ==
    \/ \E date \in CalledDates : checkDatedDistHasRls(date)
    \/ \E key \in DOMAIN datedNightlyHasRlsCache, res \in DatedResponses,
          cut \in 0..1 :
          datedRequestEnds(key, res, cut)

InitSpecDated == InitWalk /\ NewDatedState /\ IdleExceptDated

SpecDated == InitSpecDated /\ [][NextDated]_vars

(***************************************************************************)
(* Claims about the cache of the dated manifests, checked under SpecDated. *)
(***************************************************************************)
\* the state of the promise of a request that ended as how
promiseOf(how) == IF how = "error" THEN "rejected" ELSE how

\* every call returned the promise of a request sent for its key, and has
\* the result of that request
callsFollowRequests ==
    \A i \in 1..Len(datedCalls) :
       LET c == datedCalls[i]
       IN  /\ c.key \in DOMAIN requests
           /\ c.request \in 1..Len(requests[c.key])
           /\ c.result = promiseOf(requests[c.key][c.request])

C37_ResolvesIffWholeBodyPasses ==
    [][\A key \in DOMAIN datedNightlyHasRlsCache :
          \A res \in DatedResponses, cut \in 0..1 :
             (/\ datedNightlyHasRlsCache[key] = "pending"
              /\ res.statusCode = 200
              /\ cut <= Len(res.body)
              /\ datedRequestEnds(key, res, cut))
                => /\ datedNightlyHasRlsCache'[key] = "resolved"
                         <=> manifest_includes_rls(res.body)
                   /\ includesEmptyRlsVersion(res.body)
                         => datedNightlyHasRlsCache'[key] = "rejected"]_vars

notFound(w) ==
    /\ w.outcome.state = "rejected"
    /\ w.outcome.value = <<"No nightly with 'rls-preview'">>

\* C6: the walk queries the dated manifests of today, yesterday, and so on,
\* each date one day before the last; it queries no date more than 30 days
\* before its start; while it has not settled it waits for the answer to
\* its last query; and when every query it can make has failed otherwise
\* than by ENOTFOUND it rejects with "No nightly with 'rls-preview'".
C6_BackwardWalk ==
    \A i \in 1..Len(walks) :
       LET w == walks[i]
           n == Len(w.queried)
       IN  /\ n >= 1
           /\ w.queried[1] = dateString(w.start)
           /\ \A k \in 2..n : w.queried[k] = w.queried[k - 1] - 1
           /\ \A k \in 1..n : w.queried[k] >= dateString(w.start) - WindowDays
           /\ n <= WindowDays + 1
           /\ w.outcome.state = "pending" =>
                 /\ w.failed = n - 1
                 /\ w.queried[n] \in DOMAIN datedNightlyHasRlsCache
                 /\ datedNightlyHasRlsCache[w.queried[n]] = "pending"
           /\ w.failed = WindowDays + 1 <=> notFound(w)
           /\ w.outcome.state = "resolved" =>
                 w.outcome.value = <<w.queried[n]>> /\ w.failed = n - 1
           /\ (w.outcome.state = "rejected" /\ ~notFound(w)) =>
                 w.outcome = rejected("ENOTFOUND") /\ w.failed = n - 1

\* a walk queried 31 dates, down to 30 days before its start, and found none
C6_Witness ==
    \E i \in 1..Len(walks) :
       /\ Len(walks[i].queried) = WindowDays + 1
       /\ walks[i].queried[WindowDays + 1] = dateString(walks[i].start) - WindowDays
       /\ notFound(walks[i])

\* the walk rejected with the error of the failed DNS resolution
rejectedNotFound(w) ==
    /\ w.outcome.state = "rejected"
    /\ w.outcome.value = <<"ENOTFOUND">>

\* C15: a walk whose query comes to a failed DNS resolution (ENOTFOUND)
\* rejects with that error in the same turn and queries no earlier date;
\* every other failure of a query is followed by the query of the day
\* before, as long as that day is within the window of the walk.
C15_NotFoundStopsWalk ==
    \A i \in 1..Len(walks) :
       LET w == walks[i]
           n == Len(w.queried)
       IN  /\ w.notFoundAt # 0 <=> rejectedNotFound(w)
           /\ w.notFoundAt # 0 => w.notFoundAt = n
           /\ w.failed = IF w.notFoundAt # 0 THEN n - 1
                         ELSE Cardinality({k \in 1..n :
                                 k < n \/ w.outcome.state = "rejected"})
           /\ \A k \in 1..w.failed :
                 k < WindowDays + 1 =>
                    /\ k + 1 <= n
                    /\ w.queried[k + 1] = w.queried[k] - 1

\* the first query of a walk failed with a status other than 200 or with
\* a connection reset, the second with ENOTFOUND: the walk went on to the
\* day before, and then stopped
C15_Witness ==
    \E i \in 1..Len(walks) :
       /\ walks[i].notFoundAt = 2
       /\ Len(walks[i].queried) = 2
       /\ walks[i].failed = 1
       /\ rejectedNotFound(walks[i])

=============================================================================
